---- MODULE Spec2Model ----
(***************************************************************************)
(* A model of shogo82148/sfvjs (src/mod.ts): the RFC 8941 / sfbis codec.   *)
(*                                                                         *)
(* Texts are sequences of Unicode code points (the decoder works on        *)
(* [...input.join(",")], an array of code points).  JavaScript numbers     *)
(* that reach 15 decimal digits are kept as sign + decimal digit sequence, *)
(* which is exact below 2^53; -0 and 0 are identified (-0 === 0).          *)
(***************************************************************************)
EXTENDS Integers, Sequences, FiniteSets, TLC

VARIABLES
    params,     \* a Parameters object: the entries of its Map, in iteration order
    dict,       \* a Dictionary object: the entries of its Map, in iteration order
    ret,        \* what the last container operation returned or threw
    born,       \* history: per container and key, the tick of its live insertion;
                \* in Part 5 the objects the caller created itself
    last,       \* history: per container and key, the value last set and not deleted
    tick,       \* number of container operations or construction steps so far
    item,       \* an Item under construction by the caller
    inner,      \* an InnerList under construction by the caller
    list,       \* a List (array of Item | InnerList) under construction
    raw,        \* the raw strings handed to a decode operation
    lex,        \* which family of text fragments the caller composes raw from
    nfrag,      \* number of fragments composed so far
    phase,      \* "map"; "build", "encoded", "decoded", "reencoded";
                \* "compose", "parsed", "printed", "reparsed"; "number"; "heap"
    top,        \* which top-level structure the codec call is about
    out,        \* outcome of the first codec call
    out2,       \* outcome of the second codec call
    out3,       \* outcome of the third codec call
    heap        \* the objects the caller has created, by reference (Part 5)

vars == <<params, dict, ret, born, last, tick, item, inner, list, raw, lex,
          nfrag, phase, top, out, out2, out3, heap>>

-----------------------------------------------------------------------------
(* Characters *)

\* The printable ASCII characters 0x20..0x7e in order, "`" (0x60) left as a blank.
AsciiTable ==
    " !\"#$%&'" \o "(" \o ")*+,-./0123456789:;<=>?@ABCDEFGHIJKLMNOPQRSTUVWXYZ[\\]^_"
    \o " " \o "abcdefghijklmnopqrstuvwxyz{|}~"

\* The code point of a one-character string literal.
Ord(c) == 31 + (CHOOSE i \in 1..Len(AsciiTable) : SubSeq(AsciiTable, i, i) = c)

\* A string literal as a text (sequence of code points).
S(s) == [i \in 1..Len(s) |-> Ord(SubSeq(s, i, i))]

RECURSIVE Flatten(_)
Flatten(ss) == IF ss = <<>> THEN <<>> ELSE Head(ss) \o Flatten(Tail(ss))

Range(f) == {f[i] : i \in DOMAIN f}

BACKTICK == Ord("a") - 1
DIGIT    == Ord("0") .. Ord("9")
LCALPHA  == Ord("a") .. Ord("z")
UCALPHA  == Ord("A") .. Ord("Z")
ALPHA    == LCALPHA \cup UCALPHA
\* [\x20-\x7e]
VCHAR_SP == Ord(" ") .. Ord("~")
\* [a-zA-Z*]
TokenStart == ALPHA \cup {Ord("*")}
\* [-0-9a-zA-Z!#$%&'*+.^_`|~:/]
TokenChar == ALPHA \cup DIGIT \cup Range(S("-!#$%&'*+.^_|~:/")) \cup {BACKTICK}
\* [a-z*]
KeyStart == LCALPHA \cup {Ord("*")}
\* [-a-z0-9-_.*]
KeyChar == LCALPHA \cup DIGIT \cup Range(S("-_.*"))
\* [-a-zA-Z0-9_.*]
DecodeKeyChar == ALPHA \cup DIGIT \cup Range(S("-_.*"))
\* [A-Za-z0-9+/=]
Base64Char == ALPHA \cup DIGIT \cup Range(S("+/="))
\* [0-9a-f]
HexLower == DIGIT \cup (Ord("a") .. Ord("f"))

\* /^[...]$/.test(s): the whole string is one character of the class.
TestAnchored(class, s) == Len(s) = 1 /\ s[1] \in class
\* /[...]/.test(s): some character of the string is in the class.
TestUnanchored(class, s) == \E i \in 1..Len(s) : s[i] \in class

-----------------------------------------------------------------------------
(* Numbers: a sign, the decimal digits of the integer part (most           *)
(* significant first, no leading zero) and the digits of the fractional    *)
(* part (no trailing zero).  Arithmetic on them is exact.                  *)

Zero == [neg |-> FALSE, digs |-> <<0>>, frac |-> <<>>]
Num(neg, digs) ==
    IF digs = <<0>> THEN Zero ELSE [neg |-> neg, digs |-> digs, frac |-> <<>>]

\* num * 10 + d
MulAdd10(digs, d) == IF digs = <<0>> THEN <<d>> ELSE Append(digs, d)

\* digs * 1000
Mul1000(digs) == IF digs = <<0>> THEN digs ELSE digs \o <<0, 0, 0>>

\* floor(digs / 1000) and digs % 1000, of a magnitude
Div1000(digs) == IF Len(digs) <= 3 THEN <<0>> ELSE SubSeq(digs, 1, Len(digs) - 3)
RECURSIVE DigsToInt(_)
DigsToInt(digs) ==
    IF digs = <<>> THEN 0 ELSE DigsToInt(SubSeq(digs, 1, Len(digs) - 1)) * 10 + digs[Len(digs)]
Mod1000(digs) ==
    IF Len(digs) <= 3 THEN DigsToInt(digs) ELSE DigsToInt(SubSeq(digs, Len(digs) - 2, Len(digs)))

\* digs + 1
RECURSIVE Inc(_)
Inc(digs) ==
    IF digs = <<>> THEN <<1>>
    ELSE IF digs[Len(digs)] < 9 THEN [digs EXCEPT ![Len(digs)] = @ + 1]
    ELSE Append(Inc(SubSeq(digs, 1, Len(digs) - 1)), 0)

\* a <= b on magnitudes
RECURSIVE LexLeq(_, _)
LexLeq(a, b) ==
    IF a = <<>> THEN TRUE
    ELSE IF Head(a) # Head(b) THEN Head(a) < Head(b)
    ELSE LexLeq(Tail(a), Tail(b))
MagLeq(a, b) == Len(a) < Len(b) \/ (Len(a) = Len(b) /\ LexLeq(a, b))

\* `${n}` of an integral number
DigitChars(digs) == [i \in 1..Len(digs) |-> Ord("0") + digs[i]]
NumToString(n) == (IF n.neg THEN S("-") ELSE <<>>) \o DigitChars(n.digs)

-----------------------------------------------------------------------------
(* Outcomes of an operation: a returned value or a thrown error *)

Nil == [kind |-> "undefined"]
NoErr == [type |-> "", msg |-> ""]
Ret(v) == [ok |-> TRUE, val |-> v, err |-> NoErr]
Throw(type, msg) == [ok |-> FALSE, val |-> Nil, err |-> [type |-> type, msg |-> msg]]

-----------------------------------------------------------------------------
(* Platform: TextEncoder, TextDecoder("utf-8", {fatal: true}), btoa, atob *)

IsSurrogate(cp) == cp >= 55296 /\ cp <= 57343
REPLACEMENT == 65533
BOM == 65279

Utf8Bytes(cp0) ==
    LET cp == IF IsSurrogate(cp0) THEN REPLACEMENT ELSE cp0 IN
    IF cp < 128 THEN <<cp>>
    ELSE IF cp < 2048 THEN <<192 + (cp \div 64), 128 + (cp % 64)>>
    ELSE IF cp < 65536 THEN
        <<224 + (cp \div 4096), 128 + ((cp \div 64) % 64), 128 + (cp % 64)>>
    ELSE <<240 + (cp \div 262144), 128 + ((cp \div 4096) % 64),
           128 + ((cp \div 64) % 64), 128 + (cp % 64)>>

\* new TextEncoder().encode(value): lone surrogates become U+FFFD.
TextEncode(value) == Flatten([i \in 1..Len(value) |-> Utf8Bytes(value[i])])

IsCont(b) == b >= 128 /\ b <= 191

\* The UTF-8 decoder of the Encoding standard, in fatal mode.
RECURSIVE Utf8Decode(_)
Utf8Decode(bytes) ==
    IF bytes = <<>> THEN Ret(<<>>)
    ELSE
      LET b1 == bytes[1]
          n  == IF b1 < 128 THEN 1
                ELSE IF b1 >= 194 /\ b1 <= 223 THEN 2
                ELSE IF b1 >= 224 /\ b1 <= 239 THEN 3
                ELSE IF b1 >= 240 /\ b1 <= 244 THEN 4
                ELSE 0
          lo2 == IF b1 = 224 THEN 160 ELSE IF b1 = 240 THEN 144 ELSE 128
          hi2 == IF b1 = 237 THEN 159 ELSE IF b1 = 244 THEN 143 ELSE 191
          good == /\ n > 0
                  /\ Len(bytes) >= n
                  /\ n >= 2 => (bytes[2] >= lo2 /\ bytes[2] <= hi2)
                  /\ \A k \in 3..n : IsCont(bytes[k])
          cp == IF n = 1 THEN b1
                ELSE IF n = 2 THEN (b1 - 192) * 64 + (bytes[2] - 128)
                ELSE IF n = 3 THEN
                    (b1 - 224) * 4096 + (bytes[2] - 128) * 64 + (bytes[3] - 128)
                ELSE (b1 - 240) * 262144 + (bytes[2] - 128) * 4096
                     + (bytes[3] - 128) * 64 + (bytes[4] - 128)
      IN IF ~good
         THEN Throw("TypeError", "The encoded data was not valid")
         ELSE LET rest == Utf8Decode(SubSeq(bytes, n + 1, Len(bytes)))
              IN IF rest.ok THEN Ret(<<cp>> \o rest.val) ELSE rest

\* decoder.decode(bytes) with ignoreBOM false: a leading byte order mark is dropped.
TextDecode(bytes) ==
    IF Len(bytes) >= 3 /\ SubSeq(bytes, 1, 3) = Utf8Bytes(BOM)
    THEN Utf8Decode(SubSeq(bytes, 4, Len(bytes)))
    ELSE Utf8Decode(bytes)

B64Alphabet == S("ABCDEFGHIJKLMNOPQRSTUVWXYZabcdefghijklmnopqrstuvwxyz0123456789+/")
B64Index(c) == (CHOOSE i \in 1..64 : B64Alphabet[i] = c) - 1
B64Char(v) == B64Alphabet[v + 1]

\* btoa(String.fromCharCode(...bytes))
RECURSIVE Btoa(_)
Btoa(bytes) ==
    IF bytes = <<>> THEN <<>>
    ELSE IF Len(bytes) = 1 THEN
        <<B64Char(bytes[1] \div 4), B64Char((bytes[1] % 4) * 16), Ord("="), Ord("=")>>
    ELSE IF Len(bytes) = 2 THEN
        <<B64Char(bytes[1] \div 4),
          B64Char((bytes[1] % 4) * 16 + (bytes[2] \div 16)),
          B64Char((bytes[2] % 16) * 4), Ord("=")>>
    ELSE
        <<B64Char(bytes[1] \div 4),
          B64Char((bytes[1] % 4) * 16 + (bytes[2] \div 16)),
          B64Char((bytes[2] % 16) * 4 + (bytes[3] \div 64)),
          B64Char(bytes[3] % 64)>> \o Btoa(SubSeq(bytes, 4, Len(bytes)))

RECURSIVE B64Bytes(_)
B64Bytes(cs) ==
    IF Len(cs) < 2 THEN <<>>
    ELSE
      LET a == B64Index(cs[1])
          b == B64Index(cs[2])
          b1 == a * 4 + (b \div 16)
      IN IF Len(cs) = 2 THEN <<b1>>
         ELSE LET c == B64Index(cs[3])
                  b2 == (b % 16) * 16 + (c \div 4)
              IN IF Len(cs) = 3 THEN <<b1, b2>>
                 ELSE <<b1, b2, (c % 4) * 64 + B64Index(cs[4])>>
                      \o B64Bytes(SubSeq(cs, 5, Len(cs)))

\* atob(data), the forgiving-base64 decode, on data without ASCII whitespace.
Atob(data) ==
    LET n == Len(data)
        strip == IF n % 4 = 0 /\ n > 0 /\ data[n] = Ord("=")
                 THEN (IF data[n - 1] = Ord("=") THEN 2 ELSE 1)
                 ELSE 0
        d == SubSeq(data, 1, n - strip)
    IN IF Len(d) % 4 = 1 \/ \E i \in 1..Len(d) : d[i] \notin Range(B64Alphabet)
       THEN Throw("DOMException", "Failed to decode base64")
       ELSE Ret(B64Bytes(d))

-----------------------------------------------------------------------------
(* Data model.  A bare item is [kind, val]:                                *)
(*   "int"  Integer, val the number        "dec"  Decimal, val its value   *)
(*   "str"  string, val the text                  in thousandths           *)
(*   "tok"  Token, val the text            "bin"  Uint8Array, val bytes    *)
(*   "bool" boolean                        "date" Date, val its time value *)
(*   "disp" DisplayString, val its code points (lone surrogates included)  *)
(* An Item is [kind |-> "item", val, params], an InnerList is              *)
(* [kind |-> "inner", items, params]; params and dictionaries are the      *)
(* entries <<key, value>> of a JavaScript Map in iteration order.          *)

\* Not-a-number: the time value of an invalid Date.
NaN == [neg |-> FALSE, digs |-> <<>>, frac |-> <<>>]

Bare(kind, val) == [kind |-> kind, val |-> val]
BoolTrue == Bare("bool", TRUE)
BoolFalse == Bare("bool", FALSE)
NewItem(val, ps) == [kind |-> "item", val |-> val, params |-> ps]
NewInnerList(items, ps) == [kind |-> "inner", items |-> items, params |-> ps]

\* Date's TimeClip: a time value beyond 8.64e15 ms is NaN.
MaxTime == <<8, 6, 4, 0, 0, 0, 0, 0, 0, 0, 0, 0, 0, 0, 0, 0>>
TimeClip(n) == IF MagLeq(n.digs, MaxTime) THEN n ELSE NaN

-----------------------------------------------------------------------------
(* Map: insertion-ordered, key-unique *)

MapHas(m, k) == \E i \in 1..Len(m) : m[i][1] = k
MapIndex(m, k) == CHOOSE i \in 1..Len(m) : m[i][1] = k
MapGet(m, k) == IF MapHas(m, k) THEN m[MapIndex(m, k)][2] ELSE Nil

\* A variant that moves a re-set key to the end.
MapSetMoving(m, k, v) ==
    Append(SelectSeq(m, LAMBDA e : e[1] # k), <<k, v>>)
MapSet(m, k, v) ==
    IF MapHas(m, k) THEN [m EXCEPT ![MapIndex(m, k)] = <<k, v>>]
    ELSE Append(m, <<k, v>>)

\* A variant that drops the oldest entry whatever the key.
MapDeleteFirst(m, k) == IF m = <<>> THEN m ELSE Tail(m)
MapDelete(m, k) == SelectSeq(m, LAMBDA e : e[1] # k)

-----------------------------------------------------------------------------
(* Validation *)

MatchKey(key) ==
    /\ Len(key) >= 1
    /\ key[1] \in KeyStart
    /\ \A i \in 2..Len(key) : key[i] \in KeyChar

validateKey(key) ==
    IF MatchKey(key) THEN Ret(Nil)
    ELSE Throw("TypeError", "key contains invalid characters")

validateString(value) ==
    IF \A i \in 1..Len(value) : value[i] \in VCHAR_SP THEN Ret(Nil)
    ELSE Throw("TypeError", "string contains invalid characters")

validateToken(value) ==
    IF /\ Len(value) >= 1
       /\ value[1] \in TokenStart
       /\ \A i \in 2..Len(value) : value[i] \in TokenChar
    THEN Ret(Nil)
    ELSE Throw("TypeError", "token contains invalid characters")

-----------------------------------------------------------------------------
(* Containers *)

\* new Parameters(init) / new Dictionary(init): neither class declares a
\* constructor, so the field initialiser new Map() is all that runs and the
\* argument is dropped.
Parameters_new(init) == <<>>
Dictionary_new(init) == <<>>

\* Parameters.set / Dictionary.set: the outcome carries the new entries.
\* A variant that stores the entry without validating the key.
Parameters_setUnchecked(m, key, value) == Ret(MapSet(m, key, value))
Parameters_set(m, key, value) ==
    IF validateKey(key).ok THEN Ret(MapSet(m, key, value)) ELSE validateKey(key)
\* A variant that keeps the value a key already has.
Dictionary_setKeeping(m, key, value) ==
    IF ~validateKey(key).ok THEN validateKey(key)
    ELSE IF MapHas(m, key) THEN Ret(m) ELSE Ret(MapSet(m, key, value))
Dictionary_set(m, key, value) ==
    IF validateKey(key).ok THEN Ret(MapSet(m, key, value)) ELSE validateKey(key)

Parameters_get(m, key) == MapGet(m, key)
Dictionary_get(m, key) == MapGet(m, key)
Parameters_delete(m, key) == MapDelete(m, key)
Dictionary_delete(m, key) == MapDelete(m, key)
Parameters_size(m) == Len(m)
Dictionary_size(m) == Len(m)

\* The for-of loop of at: entry pos of the iteration is visited with counter i.
RECURSIVE AtLoop(_, _, _, _)
AtLoop(m, index, i, pos) ==
    IF pos > Len(m) THEN Throw("RangeError", "index out of range")
    ELSE IF i = index THEN Ret(m[pos])
    ELSE AtLoop(m, index, i + 1, pos + 1)

\* A variant that counts the entries from one.
Parameters_atOneBased(m, index) ==
    IF index < 0 \/ index >= Parameters_size(m)
    THEN Throw("RangeError", "index out of range")
    ELSE AtLoop(m, index, 1, 1)
Parameters_at(m, index) ==
    IF index < 0 \/ index >= Parameters_size(m)
    THEN Throw("RangeError", "index out of range")
    ELSE AtLoop(m, index, 0, 1)
Dictionary_at(m, index) ==
    IF index < 0 \/ index >= Dictionary_size(m)
    THEN Throw("RangeError", "index out of range")
    ELSE AtLoop(m, index, 0, 1)

\* The Item.value setter: the outcome carries the item after the assignment.
Item_setValue(it, value) ==
    IF value.kind = "str" /\ ~validateString(value.val).ok
    THEN validateString(value.val)
    ELSE Ret([it EXCEPT !.val = value])

-----------------------------------------------------------------------------
(* Encoder *)

encodeKey(key) == IF validateKey(key).ok THEN Ret(key) ELSE validateKey(key)

Integer_toString(n) == NumToString(n)

\* Decimal.floatToString on i = roundToEven(value * 1000)
Decimal_floatToString(i) ==
    LET sign == IF i.neg THEN S("-") ELSE <<>>
        int  == DigitChars(Div1000(i.digs)) \o S(".")
        f    == Mod1000(i.digs)
        d1   == <<Ord("0") + (f \div 100)>>
        f2   == f % 100
        d2   == <<Ord("0") + (f2 \div 10)>>
        f3   == f2 % 10
    IN IF f2 = 0 THEN sign \o int \o d1
       ELSE IF f3 = 0 THEN sign \o int \o d1 \o d2
       ELSE sign \o int \o d1 \o d2 \o <<Ord("0") + f3>>

HexDigits == S("0123456789abcdef")

\* DisplayString.prototype.toString; encodeBareItem has no branch that calls it.
DisplayString_toString(value) ==
    LET bytes == TextEncode(value)
        enc(b) == IF b = Ord("%") \/ b = Ord("\"") \/ b <= 31 \/ b >= 127
                  THEN <<Ord("%"), HexDigits[(b \div 16) + 1], HexDigits[(b % 16) + 1]>>
                  ELSE <<b>>
    IN S("%\"") \o Flatten([k \in 1..Len(bytes) |-> enc(bytes[k])]) \o S("\"")

\* A variant that drops the milliseconds, rounding toward zero.
TruncSeconds(t) ==
    IF t = NaN THEN NaN ELSE Num(t.neg, Div1000(t.digs))
\* Math.floor(t / 1000) of a time value
FloorSeconds(t) ==
    IF t = NaN THEN NaN
    ELSE IF t.neg /\ Mod1000(t.digs) # 0 THEN Num(TRUE, Inc(Div1000(t.digs)))
    ELSE Num(t.neg, Div1000(t.digs))

\* value.replace(/([\\"])/g, "\\$1")
EscapeString(value) ==
    Flatten([k \in 1..Len(value) |->
        IF value[k] = Ord("\\") \/ value[k] = Ord("\"")
        THEN <<Ord("\\"), value[k]>> ELSE <<value[k]>>])

encodeBareItem(value) ==
    CASE value.kind = "int"  -> Ret(Integer_toString(value.val))
      [] value.kind = "dec"  -> Ret(Decimal_floatToString(value.val))
      [] value.kind = "str"  ->
            IF validateString(value.val).ok
            THEN Ret(S("\"") \o EscapeString(value.val) \o S("\""))
            ELSE validateString(value.val)
      [] value.kind = "tok"  -> Ret(value.val)
      [] value.kind = "bin"  -> Ret(S(":") \o Btoa(value.val) \o S(":"))
      [] value.kind = "bool" -> Ret(IF value.val THEN S("?1") ELSE S("?0"))
      [] value.kind = "date" ->
            Ret(S("@") \o (IF value.val = NaN THEN S("NaN")
                           ELSE NumToString(FloorSeconds(value.val))))
      [] OTHER -> Throw("TypeError", "unsupported value type")

\* Concatenation of two outcomes, the first error winning.
Cat(a, b) == IF ~a.ok THEN a ELSE IF ~b.ok THEN b ELSE Ret(a.val \o b.val)

\* A variant that writes "=" and the value of every parameter.
RECURSIVE Parameters_toStringExplicit(_)
Parameters_toStringExplicit(m) ==
    IF m = <<>> THEN Ret(<<>>)
    ELSE Cat(Cat(Cat(Ret(S(";")), encodeKey(m[1][1])),
                 Cat(Ret(S("=")), encodeBareItem(m[1][2]))),
             Parameters_toStringExplicit(Tail(m)))
RECURSIVE Parameters_toString(_)
Parameters_toString(m) ==
    IF m = <<>> THEN Ret(<<>>)
    ELSE LET key == m[1][1]
             value == m[1][2]
             one == IF value.kind = "bool" /\ value.val = TRUE
                    THEN Cat(Ret(S(";")), encodeKey(key))
                    ELSE Cat(Cat(Ret(S(";")), encodeKey(key)),
                             Cat(Ret(S("=")), encodeBareItem(value)))
         IN Cat(one, Parameters_toString(Tail(m)))

Item_toString(it) == Cat(encodeBareItem(it.val), Parameters_toString(it.params))

\* String.prototype.trimEnd on a text
WhiteSpace ==
    {9, 10, 11, 12, 13, 32, 160, 5760, 8232, 8233, 8239, 8287, 12288, BOM}
    \cup (8192 .. 8202)
RECURSIVE TrimEnd(_)
TrimEnd(t) ==
    IF t # <<>> /\ t[Len(t)] \in WhiteSpace
    THEN TrimEnd(SubSeq(t, 1, Len(t) - 1)) ELSE t

RECURSIVE InnerItems(_)
InnerItems(items) ==
    IF items = <<>> THEN Ret(<<>>)
    ELSE Cat(Cat(Item_toString(items[1]), Ret(S(" "))), InnerItems(Tail(items)))

\* A variant that keeps the space written after the last item.
InnerList_toStringUntrimmed(il) ==
    LET body == Cat(Ret(S("(")), InnerItems(il.items))
    IN IF ~body.ok THEN body
       ELSE Cat(Ret(body.val \o S(")")), Parameters_toString(il.params))
InnerList_toString(il) ==
    LET body == Cat(Ret(S("(")), InnerItems(il.items))
    IN IF ~body.ok THEN body
       ELSE Cat(Ret(TrimEnd(body.val) \o S(")")), Parameters_toString(il.params))

Member_toString(m) ==
    IF m.kind = "item" THEN Item_toString(m) ELSE InnerList_toString(m)

encodeItem(it) == Item_toString(it)

RECURSIVE encodeListFrom(_, _)
encodeListFrom(l, i) ==
    IF i > Len(l) THEN Ret(<<>>)
    ELSE Cat(Cat(Ret(IF i # 1 THEN S(", ") ELSE <<>>), Member_toString(l[i])),
             encodeListFrom(l, i + 1))
encodeList(l) == encodeListFrom(l, 1)

RECURSIVE Dictionary_toStringFrom(_, _)
Dictionary_toStringFrom(m, index) ==
    IF index > Len(m) THEN Ret(<<>>)
    ELSE LET key == m[index][1]
             it == m[index][2]
             sep == Ret(IF index # 1 THEN S(", ") ELSE <<>>)
             body == IF it.kind = "item" /\ it.val.kind = "bool" /\ it.val.val = TRUE
                     THEN Parameters_toString(it.params)
                     ELSE Cat(Ret(S("=")), Member_toString(it))
         IN Cat(Cat(Cat(sep, encodeKey(key)), body),
                Dictionary_toStringFrom(m, index + 1))
Dictionary_toString(m) == Dictionary_toStringFrom(m, 1)
encodeDictionary(d) == Dictionary_toString(d)

-----------------------------------------------------------------------------
(* Value constructors *)

RECURSIVE StripZeros(_)
StripZeros(digs) ==
    IF Len(digs) > 1 /\ digs[1] = 0 THEN StripZeros(Tail(digs)) ELSE digs

RECURSIVE FracLeq(_, _)
FracLeq(a, b) ==
    IF a = <<>> THEN TRUE
    ELSE IF b = <<>> THEN FALSE
    ELSE IF Head(a) # Head(b) THEN Head(a) < Head(b)
    ELSE FracLeq(Tail(a), Tail(b))

\* |a| <= |b|
AbsLeq(a, b) ==
    IF a.digs # b.digs THEN MagLeq(a.digs, b.digs) ELSE FracLeq(a.frac, b.frac)

Integer_MAX_VALUE == Num(FALSE, <<9, 9, 9, 9, 9, 9, 9, 9, 9, 9, 9, 9, 9, 9, 9>>)
Decimal_MAX_VALUE ==
    [neg |-> FALSE, digs |-> <<9, 9, 9, 9, 9, 9, 9, 9, 9, 9, 9, 9>>,
     frac |-> <<9, 9, 9, 3, 8, 9, 6, 4, 8, 4, 3, 7, 5>>]

\* A variant that also rejects the two extreme values.
Integer_newExclusive(value) ==
    IF value = NaN THEN Throw("TypeError", "value must be a number")
    ELSE IF value.frac # <<>> THEN Throw("TypeError", "value must be an integer")
    ELSE IF ~AbsLeq(value, Integer_MAX_VALUE) \/ value.digs = Integer_MAX_VALUE.digs
    THEN Throw("RangeError",
               "value must be between -999999999999999 and 999999999999999")
    ELSE Ret(Bare("int", value))
\* new Integer(value)
Integer_new(value) ==
    IF value = NaN THEN Throw("TypeError", "value must be a number")
    ELSE IF value.frac # <<>> THEN Throw("TypeError", "value must be an integer")
    ELSE IF ~AbsLeq(value, Integer_MAX_VALUE)
    THEN Throw("RangeError",
               "value must be between -999999999999999 and 999999999999999")
    ELSE Ret(Bare("int", value))

\* A number is an IEEE 754 double, held as the exact decimal it denotes.
\* Doubling and halving of a decimal digit string, one pass each.
DoubleDigits(d) ==
    [i \in 1..Len(d) + 1 |->
        IF i = 1 THEN (IF d # <<>> /\ d[1] >= 5 THEN 1 ELSE 0)
        ELSE (2 * d[i - 1] + (IF i <= Len(d) /\ d[i] >= 5 THEN 1 ELSE 0)) % 10]
HalfDigits(d) ==
    [i \in 1..Len(d) + 1 |->
        ((IF i <= Len(d) THEN d[i] ELSE 0) + 10 * (IF i = 1 THEN 0 ELSE d[i - 1] % 2))
            \div 2]
RECURSIVE TrimFrac(_)
TrimFrac(f) ==
    IF f # <<>> /\ f[Len(f)] = 0 THEN TrimFrac(SubSeq(f, 1, Len(f) - 1)) ELSE f
\* The number whose digits are d, the first n of them before the point.
SplitAt(neg, d, n) ==
    [neg |-> neg, digs |-> StripZeros(SubSeq(d, 1, n)),
     frac |-> SubSeq(d, n + 1, Len(d))]
Twice(x) == SplitAt(x.neg, DoubleDigits(x.digs \o x.frac), Len(x.digs) + 1)
Halve(x) == SplitAt(x.neg, HalfDigits(x.digs \o x.frac), Len(x.digs))

\* 2^52: a double has 53 significant bits.
TWO52 == <<4, 5, 0, 3, 5, 9, 9, 6, 2, 7, 3, 7, 0, 4, 9, 6>>
Times256(x) == Twice(Twice(Twice(Twice(Twice(Twice(Twice(Twice(x))))))))
Over256(x) == Halve(Halve(Halve(Halve(Halve(Halve(Halve(Halve(x))))))))
\* x * 2^k for the least k that brings x to 2^52 or above, and x / 2^k.
RECURSIVE ScaleUp(_, _)
ScaleUp(x, k) ==
    IF MagLeq(TWO52, x.digs) THEN [x |-> x, k |-> k]
    ELSE IF MagLeq(TWO52, Times256(x).digs) THEN ScaleUp(Twice(x), k + 1)
    ELSE ScaleUp(Times256(x), k + 8)
RECURSIVE ScaleDown(_, _)
ScaleDown(x, k) ==
    IF x.digs = <<>> \/ k = 0 THEN x
    ELSE IF k >= 8 THEN ScaleDown(Over256(x), k - 8)
    ELSE ScaleDown(Halve(x), k - 1)
\* The integer nearest to y, the even one of two equally near.
NearestEven(y) ==
    LET f == TrimFrac(y.frac)
        up == IF f = <<>> THEN FALSE
              ELSE IF f = <<5>> THEN y.digs[Len(y.digs)] % 2 = 1
              ELSE f[1] >= 5
    IN [neg |-> y.neg, digs |-> IF up THEN Inc(y.digs) ELSE y.digs, frac |-> <<>>]
\* The double nearest to the real x (round to nearest, ties to even), for
\* 0 <= |x| < 2^53 and above the subnormal range.
Float64(x) ==
    IF x = NaN THEN NaN
    ELSE IF x.digs = <<0>> /\ TrimFrac(x.frac) = <<>> THEN Zero
    ELSE LET s == ScaleUp([x EXCEPT !.frac = TrimFrac(x.frac)], 0)
             n == NearestEven(s.x)
             r == ScaleDown(n, s.k)
         IN \* the guard is never true: it fixes the order of evaluation
            IF s.k < 0 \/ n.digs = <<>> THEN NaN
            ELSE [neg |-> x.neg, digs |-> r.digs, frac |-> TrimFrac(r.frac)]

\* value * 1000 as a real number
Times1000(value) ==
    LET f == value.frac \o <<0, 0, 0>>
        rest == SubSeq(value.frac, 4, Len(value.frac))
    IN [neg |-> value.neg,
        digs |-> StripZeros(value.digs \o SubSeq(f, 1, 3)),
        frac |-> rest]

roundToEven(value) ==
    LET m == value.digs
        r == value.frac
    IN IF r = <<>> THEN Num(value.neg, m)
       ELSE IF r = <<5>>
       THEN (IF m[Len(m)] % 2 = 0 THEN Num(value.neg, m)
             ELSE Num(value.neg, StripZeros(Inc(m))))
       ELSE IF r[1] >= 5 THEN Num(value.neg, StripZeros(Inc(m)))
       ELSE Num(value.neg, m)

\* A variant that accepts every value below 10^12.
Decimal_newLoose(value) ==
    IF value = NaN THEN Throw("TypeError", "value must be a number")
    ELSE IF Len(value.digs) > 12
    THEN Throw("RangeError",
               "value must be between -999999999999.999 and 999999999999.999")
    ELSE Ret(Bare("dec", roundToEven(Float64(Times1000(value)))))
\* new Decimal(value): the object keeps str = floatToString(value), modelled by
\* the rounded number of thousandths it is rendered from.
Decimal_new(value) ==
    IF value = NaN THEN Throw("TypeError", "value must be a number")
    ELSE IF ~AbsLeq(value, Decimal_MAX_VALUE)
    THEN Throw("RangeError",
               "value must be between -999999999999.999 and 999999999999.999")
    ELSE Ret(Bare("dec", roundToEven(Float64(Times1000(value)))))

\* new Token(value)
Token_new(value) ==
    IF validateToken(value).ok THEN Ret(Bare("tok", value)) ELSE validateToken(value)

\* new Date(ms)
Date_new(ms) == Bare("date", IF ms = NaN THEN NaN ELSE TimeClip(ms))

-----------------------------------------------------------------------------
(* Decoder.  A decoding step maps the input and the cursor to an outcome   *)
(* that carries the cursor: [ok, pos, val, err].                           *)

\* The characters the decoder compares peek() with, as one-character texts.
C ==
    [SP |-> S(" "),
     TAB |-> <<9>>,
     MINUS |-> S("-"),
     DOT |-> S("."),
     DQUOTE |-> S("\""),
     BSLASH |-> S("\\"),
     COLON |-> S(":"),
     QUEST |-> S("?"),
     AT |-> S("@"),
     PCT |-> S("%"),
     SEMI |-> S(";"),
     COMMA |-> S(","),
     EQ |-> S("="),
     LPAREN |-> S("("),
     RPAREN |-> S(")"),
     ZERO |-> S("0"),
     ONE |-> S("1")]

END_OF_INPUT == S("end of input")

\* Names the value of e for the body Op, so that e is written once.
Bind(e, Op(_)) == Op(e)

DOk(pos, val) == [ok |-> TRUE, pos |-> pos, val |-> val, err |-> NoErr]
DErr(pos, type, msg) ==
    [ok |-> FALSE, pos |-> pos, val |-> Nil, err |-> [type |-> type, msg |-> msg]]
\* An outcome of a constructor or a platform call, at cursor pos.
At(pos, r) == [ok |-> r.ok, pos |-> pos, val |-> r.val, err |-> r.err]

\* A variant that concatenates the raw strings without a separator.
JoinBare(input) == Flatten(input)
\* new DecodeState(...input)
RECURSIVE Join(_)
Join(input) ==
    IF input = <<>> THEN <<>>
    ELSE IF Len(input) = 1 THEN input[1]
    ELSE input[1] \o C.COMMA \o Join(Tail(input))

peek(in, pos) == IF pos >= Len(in) THEN END_OF_INPUT ELSE <<in[pos + 1]>>

isDigit(c) == TestAnchored(DIGIT, c)

RECURSIVE skipSPs(_, _)
skipSPs(in, pos) == IF peek(in, pos) = C.SP THEN skipSPs(in, pos + 1) ELSE pos

RECURSIVE skipOWS(_, _)
skipOWS(in, pos) ==
    IF peek(in, pos) = C.SP \/ peek(in, pos) = C.TAB THEN skipOWS(in, pos + 1) ELSE pos

errUnexpectedCharacter(in, pos) ==
    IF peek(in, pos) = END_OF_INPUT
    THEN DErr(pos, "SyntaxError", "unexpected end of input")
    ELSE DErr(pos, "SyntaxError", "unexpected character")

\* A variant that reads up to 16 digits.
RECURSIVE DigitLoopLong(_, _, _, _)
DigitLoopLong(in, pos, num, cnt) ==
    LET ch == peek(in, pos) IN
    IF ~isDigit(ch) THEN DOk(pos, <<num, cnt>>)
    ELSE IF cnt + 1 > 16 THEN DErr(pos + 1, "SyntaxError", "number is too long")
    ELSE DigitLoopLong(in, pos + 1, MulAdd10(num, ch[1] - Ord("0")), cnt + 1)
\* The digit loop of decodeIntegerOrDecimal and decodeDate: val is <<num, cnt>>.
RECURSIVE DigitLoop(_, _, _, _)
DigitLoop(in, pos, num, cnt) ==
    LET ch == peek(in, pos) IN
    IF ~isDigit(ch) THEN DOk(pos, <<num, cnt>>)
    ELSE IF cnt + 1 > 15 THEN DErr(pos + 1, "SyntaxError", "number is too long")
    ELSE DigitLoop(in, pos + 1, MulAdd10(num, ch[1] - Ord("0")), cnt + 1)

\* num + frac / 10^n, sign applied; fd are the n fractional digits read.
RECURSIVE DropTrailingZeros(_)
DropTrailingZeros(fd) ==
    IF fd # <<>> /\ fd[Len(fd)] = 0
    THEN DropTrailingZeros(SubSeq(fd, 1, Len(fd) - 1)) ELSE fd
MakeDecimalValue(neg, num, fd) ==
    LET f == DropTrailingZeros(fd)
    IN [neg |-> neg /\ ~(num = <<0>> /\ f = <<>>), digs |-> num, frac |-> f]

decodeIntegerOrDecimal(in, pos) ==
    LET neg == peek(in, pos) = C.MINUS
        p1 == IF neg THEN pos + 1 ELSE pos
    IN
    IF neg /\ ~isDigit(peek(in, p1)) THEN errUnexpectedCharacter(in, p1)
    ELSE
    LET loop == DigitLoop(in, p1, <<0>>, 0) IN
    IF ~loop.ok THEN loop
    ELSE
    LET num == loop.val[1]
        cnt == loop.val[2]
        p2 == loop.pos
    IN
    IF peek(in, p2) # C.DOT THEN At(p2, Integer_new(Num(neg, num)))
    ELSE IF cnt > 12 THEN DErr(p2 + 1, "SyntaxError", "number is too long")
    ELSE
    LET p3 == p2 + 1
        d(k) == peek(in, p3 + k)[1] - Ord("0")
    IN
    IF ~isDigit(peek(in, p3)) THEN errUnexpectedCharacter(in, p3)
    ELSE IF ~isDigit(peek(in, p3 + 1))
    THEN At(p3 + 1, Decimal_new(MakeDecimalValue(neg, num, <<d(0)>>)))
    ELSE IF ~isDigit(peek(in, p3 + 2))
    THEN At(p3 + 2, Decimal_new(MakeDecimalValue(neg, num, <<d(0), d(1)>>)))
    ELSE IF ~isDigit(peek(in, p3 + 3))
    THEN At(p3 + 3, Decimal_new(MakeDecimalValue(neg, num, <<d(0), d(1), d(2)>>)))
    ELSE DErr(p3 + 4, "SyntaxError", "number is too long")

RECURSIVE StringLoop(_, _, _)
StringLoop(in, pos, str) ==
    LET ch == peek(in, pos) IN
    IF ch = C.BSLASH
    THEN (IF peek(in, pos + 1) = C.BSLASH \/ peek(in, pos + 1) = C.DQUOTE
          THEN StringLoop(in, pos + 2, str \o peek(in, pos + 1))
          ELSE errUnexpectedCharacter(in, pos + 1))
    ELSE IF ch = C.DQUOTE THEN DOk(pos + 1, Bare("str", str))
    ELSE IF TestAnchored(VCHAR_SP, ch) THEN StringLoop(in, pos + 1, str \o ch)
    ELSE errUnexpectedCharacter(in, pos)

decodeString(in, pos) ==
    IF peek(in, pos) # C.DQUOTE THEN errUnexpectedCharacter(in, pos)
    ELSE StringLoop(in, pos + 1, <<>>)

RECURSIVE TokenLoop(_, _, _)
TokenLoop(in, pos, token) ==
    LET ch == peek(in, pos) IN
    IF ch = END_OF_INPUT \/ ~TestAnchored(TokenChar, ch) THEN DOk(pos, token)
    ELSE TokenLoop(in, pos + 1, token \o ch)

decodeToken(in, pos) ==
    LET loop == TokenLoop(in, pos, <<>>) IN At(loop.pos, Token_new(loop.val))

RECURSIVE ByteSequenceLoop(_, _, _)
ByteSequenceLoop(in, pos, bytes) ==
    LET ch == peek(in, pos) IN
    IF ch = END_OF_INPUT THEN DErr(pos, "SyntaxError", "unexpected end of input")
    ELSE IF ch = C.COLON
    THEN (IF Atob(bytes).ok THEN DOk(pos + 1, Bare("bin", Atob(bytes).val))
          ELSE At(pos + 1, Atob(bytes)))
    ELSE IF ~TestAnchored(Base64Char, ch) THEN errUnexpectedCharacter(in, pos)
    ELSE ByteSequenceLoop(in, pos + 1, bytes \o ch)

decodeByteSequence(in, pos) ==
    IF peek(in, pos) # C.COLON THEN errUnexpectedCharacter(in, pos)
    ELSE ByteSequenceLoop(in, pos + 1, <<>>)

decodeBoolean(in, pos) ==
    IF peek(in, pos) # C.QUEST THEN errUnexpectedCharacter(in, pos)
    ELSE IF peek(in, pos + 1) = C.ZERO THEN DOk(pos + 2, BoolFalse)
    ELSE IF peek(in, pos + 1) = C.ONE THEN DOk(pos + 2, BoolTrue)
    ELSE errUnexpectedCharacter(in, pos + 1)

decodeDate(in, pos) ==
    IF peek(in, pos) # C.AT THEN errUnexpectedCharacter(in, pos)
    ELSE
    LET neg == peek(in, pos + 1) = C.MINUS
        p1 == IF neg THEN pos + 2 ELSE pos + 1
    IN
    IF ~isDigit(peek(in, p1)) THEN errUnexpectedCharacter(in, p1)
    ELSE
    LET loop == DigitLoop(in, p1, <<0>>, 0) IN
    IF ~loop.ok THEN loop
    ELSE IF peek(in, loop.pos) = C.DOT THEN errUnexpectedCharacter(in, loop.pos)
    ELSE DOk(loop.pos, Date_new(Num(neg, Mul1000(loop.val[1]))))

\* parseInt(s, 16) of a text that starts with a hexadecimal digit
HexValue(c) == IF c \in DIGIT THEN c - Ord("0") ELSE c - Ord("a") + 10
RECURSIVE ParseHexPrefix(_, _)
ParseHexPrefix(s, acc) ==
    IF s = <<>> \/ s[1] \notin HexLower THEN acc
    ELSE ParseHexPrefix(Tail(s), acc * 16 + HexValue(s[1]))
parseInt16(s) == ParseHexPrefix(s, 0)

HexTest(c) == TestUnanchored(HexLower, c)

RECURSIVE DisplayStringLoop(_, _, _)
DisplayStringLoop(in, pos, bytes) ==
    LET ch == peek(in, pos) IN
    IF ~TestAnchored(VCHAR_SP, ch) THEN errUnexpectedCharacter(in, pos)
    ELSE IF ch = C.PCT
    THEN LET hex == peek(in, pos + 1)
             hex2 == peek(in, pos + 2)
         IN IF ~HexTest(hex) THEN errUnexpectedCharacter(in, pos + 1)
            ELSE IF ~HexTest(hex2) THEN errUnexpectedCharacter(in, pos + 2)
            ELSE DisplayStringLoop(in, pos + 3, Append(bytes, parseInt16(hex \o hex2)))
    ELSE IF ch = C.DQUOTE THEN DOk(pos + 1, bytes)
    ELSE DisplayStringLoop(in, pos + 1, Append(bytes, ch[1]))

decodeDisplayString(in, pos) ==
    IF peek(in, pos) # C.PCT THEN errUnexpectedCharacter(in, pos)
    ELSE IF peek(in, pos + 1) # C.DQUOTE THEN errUnexpectedCharacter(in, pos + 1)
    ELSE
    LET loop == DisplayStringLoop(in, pos + 2, <<>>) IN
    IF ~loop.ok THEN loop
    ELSE IF TextDecode(loop.val).ok
    THEN DOk(loop.pos, Bare("disp", TextDecode(loop.val).val))
    ELSE At(loop.pos, TextDecode(loop.val))

decodeBareItem(in, pos) ==
    LET ch == peek(in, pos) IN
    IF ch = C.MINUS \/ isDigit(ch) THEN decodeIntegerOrDecimal(in, pos)
    ELSE IF ch = C.DQUOTE THEN decodeString(in, pos)
    ELSE IF TestAnchored(TokenStart, ch) THEN decodeToken(in, pos)
    ELSE IF ch = C.COLON THEN decodeByteSequence(in, pos)
    ELSE IF ch = C.QUEST THEN decodeBoolean(in, pos)
    ELSE IF ch = C.AT THEN decodeDate(in, pos)
    ELSE IF ch = C.PCT THEN decodeDisplayString(in, pos)
    ELSE errUnexpectedCharacter(in, pos)

RECURSIVE KeyLoop(_, _, _)
KeyLoop(in, pos, key) ==
    LET ch == peek(in, pos) IN
    IF ~TestAnchored(DecodeKeyChar, ch) THEN DOk(pos, key)
    ELSE KeyLoop(in, pos + 1, key \o ch)

\* A variant that does not test the first character of the key.
decodeKeyAny(in, pos) == KeyLoop(in, pos, <<>>)
decodeKey(in, pos) ==
    IF ~TestAnchored(TokenStart, peek(in, pos)) THEN errUnexpectedCharacter(in, pos)
    ELSE KeyLoop(in, pos, <<>>)

RECURSIVE ParametersLoop(_, _, _)
ParametersLoop(in, pos, ps) ==
    IF peek(in, pos) # C.SEMI THEN DOk(pos, ps)
    ELSE Bind(decodeKey(in, skipSPs(in, pos + 1)), LAMBDA k :
    IF ~k.ok THEN k
    ELSE Bind(IF peek(in, k.pos) = C.EQ THEN decodeBareItem(in, k.pos + 1)
              ELSE DOk(k.pos, BoolTrue), LAMBDA v :
    IF ~v.ok THEN v
    ELSE Bind(Parameters_set(ps, k.val, v.val), LAMBDA set :
    IF ~set.ok THEN At(v.pos, set)
    ELSE ParametersLoop(in, v.pos, set.val))))

decodeParameters(in, pos) == ParametersLoop(in, pos, <<>>)

DecodeState_decodeItem(in, pos) ==
    Bind(decodeBareItem(in, pos), LAMBDA value :
    IF ~value.ok THEN value
    ELSE Bind(decodeParameters(in, value.pos), LAMBDA ps :
    IF ~ps.ok THEN ps ELSE DOk(ps.pos, NewItem(value.val, ps.val))))

\* A variant that does not look at the character after an item.
RECURSIVE InnerListLoopLoose(_, _, _)
InnerListLoopLoose(in, pos, items) ==
    Bind(skipSPs(in, pos), LAMBDA p :
    IF peek(in, p) = C.RPAREN THEN DOk(p + 1, items)
    ELSE Bind(DecodeState_decodeItem(in, p), LAMBDA it :
    IF ~it.ok THEN it
    ELSE InnerListLoopLoose(in, it.pos, Append(items, it.val))))
RECURSIVE InnerListLoop(_, _, _)
InnerListLoop(in, pos, items) ==
    Bind(skipSPs(in, pos), LAMBDA p :
    IF peek(in, p) = C.RPAREN THEN DOk(p + 1, items)
    ELSE Bind(DecodeState_decodeItem(in, p), LAMBDA it :
    IF ~it.ok THEN it
    ELSE IF peek(in, it.pos) # C.SP /\ peek(in, it.pos) # C.RPAREN
    THEN DErr(it.pos, "SyntaxError", "unexpected end of input")
    ELSE InnerListLoop(in, it.pos, Append(items, it.val))))

decodeInnerList(in, pos) ==
    IF peek(in, pos) # C.LPAREN THEN errUnexpectedCharacter(in, pos)
    ELSE Bind(InnerListLoop(in, pos + 1, <<>>), LAMBDA loop :
    IF ~loop.ok THEN loop
    ELSE Bind(decodeParameters(in, loop.pos), LAMBDA ps :
    IF ~ps.ok THEN ps ELSE DOk(ps.pos, NewInnerList(loop.val, ps.val))))

decodeItemOrInnerList(in, pos) ==
    IF peek(in, pos) = C.LPAREN THEN decodeInnerList(in, pos)
    ELSE DecodeState_decodeItem(in, pos)

\* A variant that accepts a comma at the end of the input.
SeparatorLax(in, pos) ==
    Bind(skipOWS(in, pos), LAMBDA p :
    IF peek(in, p) = END_OF_INPUT THEN DOk(p, FALSE)
    ELSE IF peek(in, p) # C.COMMA THEN errUnexpectedCharacter(in, p)
    ELSE Bind(skipOWS(in, p + 1), LAMBDA q :
    DOk(q, peek(in, q) # END_OF_INPUT)))
\* The separator idiom shared by decodeList and decodeDictionary, after a member
\* that ended at pos: val is TRUE when another member follows.
Separator(in, pos) ==
    Bind(skipOWS(in, pos), LAMBDA p :
    IF peek(in, p) = END_OF_INPUT THEN DOk(p, FALSE)
    ELSE IF peek(in, p) # C.COMMA THEN errUnexpectedCharacter(in, p)
    ELSE Bind(skipOWS(in, p + 1), LAMBDA q :
    IF peek(in, q) = END_OF_INPUT
    THEN DErr(q, "SyntaxError", "unexpected end of input")
    ELSE DOk(q, TRUE)))

RECURSIVE ListLoop(_, _, _)
ListLoop(in, pos, members) ==
    Bind(decodeItemOrInnerList(in, pos), LAMBDA m :
    IF ~m.ok THEN m
    ELSE Bind(Separator(in, m.pos), LAMBDA sep :
    IF ~sep.ok THEN sep
    ELSE IF sep.val THEN ListLoop(in, sep.pos, Append(members, m.val))
    ELSE DOk(sep.pos, Append(members, m.val))))

\* A variant without the early return on end of input.
decodeListNonEmpty(in, pos) == ListLoop(in, pos, <<>>)
DecodeState_decodeList(in, pos) ==
    IF peek(in, pos) = END_OF_INPUT THEN DOk(pos, <<>>)
    ELSE ListLoop(in, pos, <<>>)

\* A dictionary member without "=": Boolean true with the parameters that follow.
BareMember(in, pos) ==
    Bind(decodeParameters(in, pos), LAMBDA ps :
    IF ~ps.ok THEN ps ELSE DOk(ps.pos, NewItem(BoolTrue, ps.val)))

RECURSIVE DictionaryLoop(_, _, _)
DictionaryLoop(in, pos, d) ==
    Bind(decodeKey(in, pos), LAMBDA k :
    IF ~k.ok THEN k
    ELSE Bind(IF peek(in, k.pos) = C.EQ THEN decodeItemOrInnerList(in, k.pos + 1)
              ELSE BareMember(in, k.pos), LAMBDA m :
    IF ~m.ok THEN m
    ELSE Bind(Dictionary_set(d, k.val, m.val), LAMBDA set :
    IF ~set.ok THEN At(m.pos, set)
    ELSE Bind(Separator(in, m.pos), LAMBDA sep :
    IF ~sep.ok THEN sep
    ELSE IF sep.val THEN DictionaryLoop(in, sep.pos, set.val)
    ELSE DOk(sep.pos, set.val)))))

DecodeState_decodeDictionary(in, pos) ==
    IF peek(in, pos) = END_OF_INPUT THEN DOk(pos, <<>>)
    ELSE DictionaryLoop(in, pos, <<>>)

\* A variant that omits the end-of-input check.
FinishUnchecked(in, r) == IF ~r.ok THEN r ELSE DOk(skipSPs(in, r.pos), r.val)
\* The tail shared by the three top-level decode functions.
Finish(in, r) ==
    IF ~r.ok THEN r
    ELSE Bind(skipSPs(in, r.pos), LAMBDA p :
    IF peek(in, p) # END_OF_INPUT THEN DErr(p, "SyntaxError", "unexpected input")
    ELSE DOk(p, r.val))

\* Which of the three DecodeState rules a top-level function runs.
Rule(t, in, pos) ==
    IF t = "item" THEN DecodeState_decodeItem(in, pos)
    ELSE IF t = "list" THEN DecodeState_decodeList(in, pos)
    ELSE DecodeState_decodeDictionary(in, pos)

\* const state = new DecodeState(...input); state.skipSPs(); the rule;
\* state.skipSPs(); the end-of-input check.
decodeTop(t, input) ==
    Bind(Join(input), LAMBDA in :
    Bind(Rule(t, in, skipSPs(in, 0)), LAMBDA r : Finish(in, r)))

decodeItem(input) == decodeTop("item", input)
decodeList(input) == decodeTop("list", input)
decodeDictionary(input) == decodeTop("dict", input)

-----------------------------------------------------------------------------
(* Bounds *)

MaxOps == 4        \* container operations in one run
MaxBuild == 2      \* construction steps after the first item
MaxFrags == 3      \* text fragments and raw strings composed into one input

-----------------------------------------------------------------------------
(* Part 1: a Parameters or a Dictionary under set, delete and get.         *)
(* born and last are history variables kept beside the containers: born[k] *)
(* is the tick at which key k was inserted if it is present (0 if not),    *)
(* last[k] the value of the latest set(k, v) not followed by delete(k).    *)

MapKeys == {S("a"), S("b"), S("A"), S("1"), S("aA")}
ParamValues == {BoolTrue, BoolFalse}
MemberValues ==
    {NewItem(Bare("int", Num(FALSE, <<1>>)), <<>>), NewInnerList(<<>>, <<>>)}

\* A record of the last operation: its outcome r, the entries before it, and
\* whether the history had the key present before it.
MapOp(op, key, r, before) ==
    [op |-> op, key |-> key, r |-> r, before |-> before, index |-> 0,
     was |-> IF key \in DOMAIN born THEN born[key] # 0 ELSE FALSE]
\* The record of an at(index) call.
AtOp(index, r, before) ==
    [op |-> "at", key |-> <<>>, r |-> r, before |-> before, index |-> index,
     was |-> FALSE]
\* The record of a construction from a list of [key, value] pairs.
NewOp(init) ==
    [op |-> "init", key |-> <<>>, r |-> Ret(Nil), before |-> init, index |-> 0,
     was |-> FALSE]
\* Lists of pairs passed to the constructors.
ParametersInits ==
    {<<>>,
     <<<<S("foo"), Bare("tok", S("bar"))>>>>,
     <<<<S("b"), BoolFalse>>, <<S("a"), BoolTrue>>>>}
DictionaryInits ==
    {<<>>,
     <<<<S("b"), NewInnerList(<<>>, <<>>)>>>>,
     <<<<S("a"), NewItem(BoolFalse, <<>>)>>,
       <<S("b"), NewItem(BoolTrue, <<>>)>>,
       <<S("c"), NewItem(BoolTrue,
                    Parameters_new(<<<<S("foo"), Bare("tok", S("bar"))>>>>))>>>>}
\* Indexes passed to at: below, inside and beyond any size reached.
AtIndexes == -1 .. MaxOps

\* [Symbol.iterator](): the entries of the Map in its iteration order.
Parameters_iterator(m) == m
Dictionary_iterator(m) == m

UnchangedCodec ==
    UNCHANGED <<item, inner, list, raw, lex, nfrag, phase, top, out, out2, out3,
                heap>>

InitMap ==
    /\ phase = "map"
    /\ top \in {"params", "dict"}
    /\ params = <<>> /\ dict = <<>>
    /\ born = [k \in MapKeys |-> 0]
    /\ ret = MapOp("new", <<>>, Ret(Nil), <<>>)
    /\ last = [k \in MapKeys |-> Nil]
    /\ tick = 0
    /\ item = Nil /\ inner = Nil /\ list = <<>> /\ raw = <<>> /\ lex = ""
    /\ nfrag = 0 /\ out = Nil /\ out2 = Nil /\ out3 = Nil /\ heap = <<>>

\* History of a set(k, v) with outcome r, and of a delete(k).
HistSet(k, v, r) ==
    /\ born' = IF r.ok /\ born[k] = 0 THEN [born EXCEPT ![k] = tick + 1] ELSE born
    /\ last' = IF r.ok THEN [last EXCEPT ![k] = v] ELSE last
    /\ tick' = tick + 1
HistDelete(k) ==
    /\ born' = [born EXCEPT ![k] = 0]
    /\ last' = [last EXCEPT ![k] = Nil]
    /\ tick' = tick + 1

\* A fresh object replaces the one under test before any other update.
ParametersNew(init) ==
    /\ phase = "map" /\ top = "params" /\ tick = 0
    /\ params' = Parameters_new(init)
    /\ ret' = NewOp(init)
    /\ UNCHANGED <<dict, born, last, tick>> /\ UnchangedCodec

DictionaryNew(init) ==
    /\ phase = "map" /\ top = "dict" /\ tick = 0
    /\ dict' = Dictionary_new(init)
    /\ ret' = NewOp(init)
    /\ UNCHANGED <<params, born, last, tick>> /\ UnchangedCodec

ParametersSet(k, v) ==
    /\ phase = "map" /\ top = "params" /\ tick < MaxOps
    /\ LET r == Parameters_set(params, k, v) IN
        /\ params' = IF r.ok THEN r.val ELSE params
        /\ ret' = MapOp("set", k, IF r.ok THEN Ret(Nil) ELSE r, params)
        /\ HistSet(k, v, r)
    /\ UNCHANGED dict /\ UnchangedCodec

ParametersDelete(k) ==
    /\ phase = "map" /\ top = "params" /\ tick < MaxOps
    /\ params' = Parameters_delete(params, k)
    /\ ret' = MapOp("delete", k, Ret(Nil), params)
    /\ HistDelete(k)
    /\ UNCHANGED dict /\ UnchangedCodec

ParametersGet(k) ==
    /\ phase = "map" /\ top = "params"
    /\ ret' = MapOp("get", k, Ret(Parameters_get(params, k)), params)
    /\ UNCHANGED <<params, dict, born, last, tick>> /\ UnchangedCodec

ParametersAt(i) ==
    /\ phase = "map" /\ top = "params"
    /\ ret' = AtOp(i, Parameters_at(params, i), params)
    /\ UNCHANGED <<params, dict, born, last, tick>> /\ UnchangedCodec

DictionarySet(k, v) ==
    /\ phase = "map" /\ top = "dict" /\ tick < MaxOps
    /\ LET r == Dictionary_set(dict, k, v) IN
        /\ dict' = IF r.ok THEN r.val ELSE dict
        /\ ret' = MapOp("set", k, IF r.ok THEN Ret(Nil) ELSE r, dict)
        /\ HistSet(k, v, r)
    /\ UNCHANGED params /\ UnchangedCodec

DictionaryDelete(k) ==
    /\ phase = "map" /\ top = "dict" /\ tick < MaxOps
    /\ dict' = Dictionary_delete(dict, k)
    /\ ret' = MapOp("delete", k, Ret(Nil), dict)
    /\ HistDelete(k)
    /\ UNCHANGED params /\ UnchangedCodec

DictionaryGet(k) ==
    /\ phase = "map" /\ top = "dict"
    /\ ret' = MapOp("get", k, Ret(Dictionary_get(dict, k)), dict)
    /\ UNCHANGED <<params, dict, born, last, tick>> /\ UnchangedCodec

DictionaryAt(i) ==
    /\ phase = "map" /\ top = "dict"
    /\ ret' = AtOp(i, Dictionary_at(dict, i), dict)
    /\ UNCHANGED <<params, dict, born, last, tick>> /\ UnchangedCodec

NextMap ==
    \/ \E init \in ParametersInits : ParametersNew(init)
    \/ \E init \in DictionaryInits : DictionaryNew(init)
    \/ \E k \in MapKeys, v \in ParamValues : ParametersSet(k, v)
    \/ \E k \in MapKeys : ParametersDelete(k)
    \/ \E k \in MapKeys : ParametersGet(k)
    \/ \E i \in AtIndexes : ParametersAt(i)
    \/ \E k \in MapKeys, v \in MemberValues : DictionarySet(k, v)
    \/ \E k \in MapKeys : DictionaryDelete(k)
    \/ \E k \in MapKeys : DictionaryGet(k)
    \/ \E i \in AtIndexes : DictionaryAt(i)

SpecMap == InitMap /\ [][NextMap]_vars

-----------------------------------------------------------------------------
(* Part 2: models built with the public constructors and container         *)
(* operations, encoded, decoded again and encoded again.                   *)

Dec(neg, digs, frac) == [neg |-> neg, digs |-> digs, frac |-> frac]

\* What the caller hands to the constructors: the doubles these literals
\* denote; the values are those accepted.
IntegerInputs ==
    { Float64(x) : x \in
        { Zero, Num(FALSE, <<4, 2>>), Num(TRUE, <<7>>),
          Integer_MAX_VALUE, [Integer_MAX_VALUE EXCEPT !.neg = TRUE],
          Num(FALSE, <<1, 0, 0, 0, 0, 0, 0, 0, 0, 0, 0, 0, 0, 0, 0, 0>>),
          Dec(FALSE, <<4, 2>>, <<1>>), NaN } }
DecimalInputs ==
    { Float64(x) : x \in
        { Zero, Dec(FALSE, <<4, 2>>, <<1>>), Dec(TRUE, <<1>>, <<5>>),
          Dec(FALSE, <<0>>, <<0, 0, 1>>), Dec(TRUE, <<0>>, <<0, 6, 2, 5>>),
          Dec(FALSE, <<3>>, <<1, 4>>), Decimal_MAX_VALUE,
          Dec(FALSE, <<9, 9, 9, 9, 9, 9, 9, 9, 9, 9, 9, 9>>, <<9, 9, 9, 5, 1, 1>>),
          NaN } }
StringInputs == { <<>>, S("a"), S("a b"), S("\"\\"), <<1>>, <<97, 233>> }
TokenInputs == { S("a"), S("*a/b:c"), S("A1"), S("1a"), <<>>, S("a b") }
ByteInputs == { <<>>, <<102>>, <<102, 111>>, <<1, 2, 3>>, <<255, 254, 253, 0>> }
DateInputs ==
    { Zero, Num(FALSE, <<9, 9, 9>>), Num(FALSE, <<1, 0, 0, 0>>),
      Num(FALSE, <<1, 9, 9, 9>>), Num(TRUE, <<1>>), Num(TRUE, <<1, 0, 0, 0>>),
      Num(TRUE, <<1, 0, 0, 1>>), Num(FALSE, MaxTime), Num(TRUE, MaxTime),
      Num(FALSE, <<8, 6, 4, 0, 0, 0, 0, 0, 0, 0, 0, 0, 0, 0, 0, 1>>), NaN }
DisplayInputs ==
    { <<>>, S("a"), S("a%\"b"), <<1>>, <<127>>, <<233>>, <<97, 233>>,
      <<BOM>>, <<BOM, 97>>, <<97, BOM>>, <<55296>>, <<97, 57343>>,
      <<REPLACEMENT>>, <<128512>> }

Accepted(outcomes) == {o.val : o \in {r \in outcomes : r.ok}}

\* The bare items the constructors yield, by the type of what they hold.
NumberItems ==
    Accepted({Integer_new(n) : n \in IntegerInputs})
    \cup Accepted({Decimal_new(n) : n \in DecimalInputs})
    \cup {Date_new(ms) : ms \in DateInputs}
TextItems ==
    {Bare("str", t) : t \in StringInputs}
    \cup Accepted({Token_new(t) : t \in TokenInputs})
    \cup {Bare("bin", b) : b \in ByteInputs}
    \cup {Bare("disp", t) : t \in DisplayInputs}
BooleanItems == {BoolTrue, BoolFalse}

\* The string used once a first item exists: it is not a valid sf-string.
BadString == Bare("str", <<1>>)

UnchangedMap == UNCHANGED <<params, ret, born, last, heap>>

InitEnc ==
    /\ phase = "build"
    /\ \/ item \in {NewItem(v, <<>>) : v \in NumberItems}
       \/ item \in {NewItem(v, <<>>) : v \in TextItems}
       \/ item \in {NewItem(v, <<>>) : v \in BooleanItems}
    /\ inner \in {NewInnerList(<<>>, <<>>), NewInnerList(<<item>>, <<>>)}
    /\ list = <<>> /\ dict = <<>>
    /\ tick = 0
    /\ top = "" /\ out = Nil /\ out2 = Nil /\ out3 = Nil
    /\ params = <<>> /\ ret = Nil /\ born = <<>> /\ last = <<>>
    /\ raw = <<>> /\ lex = "" /\ nfrag = 0 /\ heap = <<>>

Building == phase = "build" /\ tick < MaxBuild
Built ==
    /\ tick' = tick + 1
    /\ UNCHANGED <<raw, lex, nfrag, phase, top, out, out2, out3>> /\ UnchangedMap

\* item = new Item(v)
ItemNew(v) ==
    /\ Building
    /\ item' = NewItem(v, <<>>)
    /\ UNCHANGED <<inner, list, dict>> /\ Built

\* item.value = v
ItemSetValue(v) ==
    /\ Building
    /\ item' = IF Item_setValue(item, v).ok THEN Item_setValue(item, v).val ELSE item
    /\ UNCHANGED <<inner, list, dict>> /\ Built

\* item.parameters.set(k, v)
ItemParametersSet(k, v) ==
    /\ Building
    /\ item' = IF Parameters_set(item.params, k, v).ok
               THEN [item EXCEPT !.params = Parameters_set(item.params, k, v).val]
               ELSE item
    /\ UNCHANGED <<inner, list, dict>> /\ Built

\* inner = new InnerList([...inner.items, item], inner.parameters)
InnerListNew ==
    /\ Building
    /\ inner' = NewInnerList(Append(inner.items, item), inner.params)
    /\ UNCHANGED <<item, list, dict>> /\ Built

\* inner.parameters.set(k, v)
InnerListParametersSet(k, v) ==
    /\ Building
    /\ inner' = IF Parameters_set(inner.params, k, v).ok
                THEN [inner EXCEPT !.params = Parameters_set(inner.params, k, v).val]
                ELSE inner
    /\ UNCHANGED <<item, list, dict>> /\ Built

\* list.push(item), list.push(inner)
ListPush(m) ==
    /\ Building
    /\ list' = Append(list, m)
    /\ UNCHANGED <<item, inner, dict>> /\ Built

\* dict.set(k, item), dict.set(k, inner)
DictionarySetMember(k, m) ==
    /\ Building
    /\ dict' = IF Dictionary_set(dict, k, m).ok THEN Dictionary_set(dict, k, m).val
               ELSE dict
    /\ UNCHANGED <<item, inner, list>> /\ Built

encodeTop(t, model) ==
    IF t = "item" THEN encodeItem(model)
    ELSE IF t = "list" THEN encodeList(model)
    ELSE encodeDictionary(model)
UnchangedBuild == UNCHANGED <<item, inner, list, dict, tick, raw, lex, nfrag>>

CallEncodeItem ==
    /\ phase = "build"
    /\ phase' = "encoded" /\ top' = "item" /\ out' = encodeItem(item)
    /\ UNCHANGED <<out2, out3>> /\ UnchangedBuild /\ UnchangedMap

CallEncodeList ==
    /\ phase = "build"
    /\ phase' = "encoded" /\ top' = "list" /\ out' = encodeList(list)
    /\ UNCHANGED <<out2, out3>> /\ UnchangedBuild /\ UnchangedMap

CallEncodeDictionary ==
    /\ phase = "build"
    /\ phase' = "encoded" /\ top' = "dict" /\ out' = encodeDictionary(dict)
    /\ UNCHANGED <<out2, out3>> /\ UnchangedBuild /\ UnchangedMap

\* The encoded text is decoded by the matching decode operation.
DecodeEncoded ==
    /\ phase = "encoded" /\ out.ok
    /\ phase' = "decoded" /\ out2' = decodeTop(top, <<out.val>>)
    /\ UNCHANGED <<top, out, out3>> /\ UnchangedBuild /\ UnchangedMap

\* The decoded model is encoded again.
EncodeDecoded ==
    /\ phase = "decoded" /\ out2.ok
    /\ phase' = "reencoded" /\ out3' = encodeTop(top, out2.val)
    /\ UNCHANGED <<top, out, out2>> /\ UnchangedBuild /\ UnchangedMap

NextEnc ==
    \/ ItemNew(BoolTrue)
    \/ ItemNew(BadString)
    \/ ItemSetValue(BoolFalse)
    \/ ItemSetValue(BadString)
    \/ ItemParametersSet(S("a"), BoolTrue)
    \/ ItemParametersSet(S("a"), BadString)
    \/ ItemParametersSet(S("A"), BoolTrue)
    \/ ItemParametersSet(S("b"), BoolFalse)
    \/ InnerListNew
    \/ InnerListParametersSet(S("a"), BoolFalse)
    \/ ListPush(item)
    \/ ListPush(inner)
    \/ \E k \in {S("a"), S("A")} : DictionarySetMember(k, item)
    \/ DictionarySetMember(S("b"), inner)
    \/ CallEncodeItem
    \/ CallEncodeList
    \/ CallEncodeDictionary
    \/ DecodeEncoded
    \/ EncodeDecoded

SpecEnc == InitEnc /\ [][NextEnc]_vars

-----------------------------------------------------------------------------
(* Part 3: raw header texts composed from fragments, decoded, encoded      *)
(* again and decoded again.                                                *)

\* The fragments a caller composes the raw strings from, by family.
Fragments(family) ==
    IF family = "structure"
    THEN {S("a"), S("bc"), S("A"), S("1"), S("="), S(";"), S(","), S(" "),
          S("("), S(")")}
    ELSE IF family = "number"
    THEN {S("1"), S("-"), S("."), S("@"), S("025"), S("99999"), S("99999999"),
          S("999999999999."), S(" ")}
    ELSE IF family = "text"
    THEN {S(":"), S("="), S("a"), S("Zg"), S("%\""), S("\""), S("%"),
          S("%c3%a9"), S("%ff"), S("%ef%bb%bf")}
    ELSE IF family = "separator"
    THEN {S("a"), S("b"), S(","), S(" "), <<9>>, <<9, 44>>, S("=1"), S(";")}
    ELSE IF family = "innerlist"
    THEN {S("("), S("(1"), S("(1 a"), S("a"), S(" "), <<9>>, S(")"), S(";b")}
    ELSE IF family = "dictionary"
    THEN {S("a"), S("b"), S("a=1"), S("a=1,b"), S(","), S("=("), S(")"),
          S(";a"), S(";a=1;b")}
    ELSE {S("%\""), S("\""), S("%"), S("%c"), S("%C3"), S("%c3%a9"), S("%ff"),
          S("%ef%bb%bf"), S("a"), <<233>>, <<1>>}
Families == {"structure", "number", "text"}
SyntaxFamilies == {"separator", "innerlist", "dictionary", "display"}

\* The fragments of every family.
FragmentTable == [family \in Families \cup SyntaxFamilies |-> Fragments(family)]

InitDec ==
    /\ phase = "compose"
    /\ lex \in Families
    /\ raw \in {<<>>, <<<<>>>>}
    /\ nfrag = 0
    /\ top = "" /\ out = Nil /\ out2 = Nil /\ out3 = Nil
    /\ item = Nil /\ inner = Nil /\ list = <<>> /\ dict = <<>> /\ tick = 0
    /\ params = <<>> /\ ret = Nil /\ born = <<>> /\ last = <<>> /\ heap = <<>>

UnchangedModels == UNCHANGED <<item, inner, list, dict, tick>>

\* The caller extends the last raw string by one fragment.
Compose(f) ==
    /\ phase = "compose" /\ nfrag < MaxFrags /\ raw # <<>>
    /\ raw' = [raw EXCEPT ![Len(raw)] = @ \o f]
    /\ nfrag' = nfrag + 1
    /\ UNCHANGED <<lex, phase, top, out, out2, out3>>
    /\ UnchangedModels /\ UnchangedMap

\* The caller starts another raw string (a repeated header line).
NewRaw ==
    /\ phase = "compose" /\ nfrag < MaxFrags
    /\ raw' = Append(raw, <<>>)
    /\ nfrag' = nfrag + 1
    /\ UNCHANGED <<lex, phase, top, out, out2, out3>>
    /\ UnchangedModels /\ UnchangedMap

\* decodeItem(...raw), decodeList(...raw) or decodeDictionary(...raw)
CallDecode(t) ==
    /\ phase = "compose"
    /\ phase' = "parsed" /\ top' = t /\ out' = decodeTop(t, raw)
    /\ UNCHANGED <<raw, lex, nfrag, out2, out3>>
    /\ UnchangedModels /\ UnchangedMap


\* The decoded model is encoded by the matching encode operation.
EncodeParsed ==
    /\ phase = "parsed" /\ out.ok
    /\ phase' = "printed" /\ out2' = encodeTop(top, out.val)
    /\ UNCHANGED <<raw, lex, nfrag, top, out, out3>>
    /\ UnchangedModels /\ UnchangedMap

\* The encoded text is decoded again.
DecodePrinted ==
    /\ phase = "printed" /\ out2.ok
    /\ phase' = "reparsed" /\ out3' = decodeTop(top, <<out2.val>>)
    /\ UNCHANGED <<raw, lex, nfrag, top, out, out2>>
    /\ UnchangedModels /\ UnchangedMap

NextDec ==
    \/ \E f \in FragmentTable[lex] : Compose(f)
    \/ NewRaw
    \/ \E t \in {"item", "list", "dict"} : CallDecode(t)
    \/ EncodeParsed
    \/ DecodePrinted

SpecDec == InitDec /\ [][NextDec]_vars

\* The same caller composing its raw strings from the fragments of one
\* syntactic construct.
InitSyntax ==
    /\ phase = "compose"
    /\ lex \in SyntaxFamilies
    /\ raw \in {<<>>, <<<<>>>>}
    /\ nfrag = 0
    /\ top = "" /\ out = Nil /\ out2 = Nil /\ out3 = Nil
    /\ item = Nil /\ inner = Nil /\ list = <<>> /\ dict = <<>> /\ tick = 0
    /\ params = <<>> /\ ret = Nil /\ born = <<>> /\ last = <<>> /\ heap = <<>>

SpecSyntax == InitSyntax /\ [][NextDec]_vars

-----------------------------------------------------------------------------
(* Part 4: the Integer and Decimal constructors applied to numbers. A       *)
(* number is the double that a decimal literal of the caller denotes.       *)

IntegerParts ==
    { <<0>>, <<1>>, <<9>>, <<4, 2>>,
      <<7, 8, 4, 6, 7, 6, 3, 9, 7, 2, 2, 9>>,
      <<9, 9, 9, 9, 9, 9, 9, 9, 9, 9, 9, 9>>,
      <<9, 9, 9, 9, 9, 9, 9, 9, 9, 9, 9, 9, 9, 9, 9>>,
      <<1, 0, 0, 0, 0, 0, 0, 0, 0, 0, 0, 0, 0, 0, 0, 0>> }
FractionParts ==
    { <<>>, <<1>>, <<5>>, <<0, 0, 1>>, <<0, 0, 5>>, <<0, 6, 2, 5>>,
      <<0, 0, 0, 5>>, <<5, 1, 1, 5>>, <<5, 8, 2, 5>>, <<4, 4, 0, 6>>,
      <<5, 8, 6, 5, 0, 0, 0, 0, 0, 0, 0, 0, 0, 0, 1>>,
      <<9, 9, 9>>, <<9, 9, 9, 4>>, <<9, 9, 9, 5>>,
      <<9, 9, 9, 3, 8, 9, 6, 4, 8, 4, 3, 7, 5>>,
      <<9, 9, 9, 5, 1, 1, 7, 1, 8, 7, 5>> }
NumberLiterals ==
    {Dec(neg, digs, frac) :
        neg \in BOOLEAN, digs \in IntegerParts, frac \in FractionParts}
NumberArguments == {Float64(l) : l \in NumberLiterals} \cup {NaN}

InitNum ==
    /\ phase = "number"
    /\ ret \in {[op |-> "argument", arg |-> v, r |-> Ret(Nil)] : v \in NumberArguments}
    /\ item = Nil /\ inner = Nil /\ list = <<>> /\ dict = <<>> /\ params = <<>>
    /\ born = <<>> /\ last = <<>> /\ tick = 0
    /\ raw = <<>> /\ lex = "" /\ nfrag = 0
    /\ top = "" /\ out = Nil /\ out2 = Nil /\ out3 = Nil /\ heap = <<>>

UnchangedNum ==
    UNCHANGED <<params, dict, born, last, tick, item, inner, list, raw, lex,
                nfrag, phase, top, out, out2, out3, heap>>

\* new Integer(ret.arg)
IntegerNew ==
    /\ phase = "number" /\ ret.op = "argument"
    /\ ret' = [op |-> "Integer", arg |-> ret.arg, r |-> Integer_new(ret.arg)]
    /\ UnchangedNum

\* new Decimal(ret.arg)
DecimalNew ==
    /\ phase = "number" /\ ret.op = "argument"
    /\ ret' = [op |-> "Decimal", arg |-> ret.arg, r |-> Decimal_new(ret.arg)]
    /\ UnchangedNum

NextNum == IntegerNew \/ DecimalNew

SpecNum == InitNum /\ [][NextNum]_vars

-----------------------------------------------------------------------------
(* Part 5: objects and references.  heap[r] is the object with reference   *)
(* r; a field that holds an object holds its reference.  born is the set   *)
(* of the objects the caller created by an expression of its own and keeps *)
(* in a variable; the others are the defaults a constructor created.       *)

ParametersObject(map) == [cls |-> "Parameters", map |-> map]
ArrayObject(elems) == [cls |-> "Array", elems |-> elems]

\* new Item(value, params): this.val = value; this.params = params.  p = 0 is
\* an omitted argument, for which the default new Parameters() is evaluated.
Item_constructor(h, value, p) ==
    IF p = 0
    THEN h \o << ParametersObject(Parameters_new(<<>>)),
                 [cls |-> "Item", val |-> value, params |-> Len(h) + 1] >>
    ELSE Append(h, [cls |-> "Item", val |-> value, params |-> p])

\* new InnerList(items, params): this.items = items; this.parameters = params.
\* a = 0 and p = 0 are omitted arguments: the defaults [] and new Parameters().
InnerList_constructor(h, a, p) ==
    Bind(IF a = 0 THEN Append(h, ArrayObject(<<>>)) ELSE h, LAMBDA h1 :
    Bind(IF p = 0 THEN Append(h1, ParametersObject(Parameters_new(<<>>))) ELSE h1,
         LAMBDA h2 :
    Append(h2, [cls |-> "InnerList",
                items |-> IF a = 0 THEN Len(h) + 1 ELSE a,
                parameters |-> IF p = 0 THEN Len(h2) ELSE p])))

\* get parameters(): return this.params
Item_parameters(h, i) == h[i].params

\* p.set(key, value) on the Parameters object p
ParametersObject_set(h, p, key, value) ==
    IF Parameters_set(h[p].map, key, value).ok
    THEN [h EXCEPT ![p].map = Parameters_set(h[p].map, key, value).val]
    ELSE h

\* a.push(i) on the array a
Array_push(h, a, i) == [h EXCEPT ![a].elems = Append(@, i)]

\* i.value = value on the Item i
ItemObject_setValue(h, i, value) ==
    IF Item_setValue(h[i], value).ok
    THEN [h EXCEPT ![i] = Item_setValue(h[i], value).val]
    ELSE h

\* What an object holds, references followed.
ItemContents(h, i) == NewItem(h[i].val, h[h[i].params].map)
ArrayContents(h, a) == [k \in 1..Len(h[a].elems) |-> ItemContents(h, h[a].elems[k])]
Contents(h, r) ==
    IF h[r].cls = "Parameters" THEN h[r].map
    ELSE IF h[r].cls = "Item" THEN ItemContents(h, r)
    ELSE IF h[r].cls = "Array" THEN ArrayContents(h, r)
    ELSE NewInnerList(ArrayContents(h, h[r].items), h[h[r].parameters].map)

\* o.toString() of a Parameters, an Item or an InnerList
Encoding(h, r) ==
    IF h[r].cls = "Parameters" THEN Parameters_toString(Contents(h, r))
    ELSE IF h[r].cls = "Item" THEN Item_toString(Contents(h, r))
    ELSE InnerList_toString(Contents(h, r))

MaxHeap == 4       \* objects created in one run
MaxWrites == 2     \* mutations in one run

Refs(cls) == {r \in born : heap[r].cls = cls}
HeapOp(op, via) == [op |-> op, via |-> via, before |-> heap]

InitHeap ==
    /\ phase = "heap"
    /\ heap = <<>>
    /\ ret = [op |-> "new", via |-> 0, before |-> <<>>]
    /\ tick = 0
    /\ item = Nil /\ inner = Nil /\ list = <<>> /\ dict = <<>> /\ params = <<>>
    /\ born = {} /\ last = <<>>
    /\ raw = <<>> /\ lex = "" /\ nfrag = 0
    /\ top = "" /\ out = Nil /\ out2 = Nil /\ out3 = Nil

UnchangedHeap ==
    UNCHANGED <<params, dict, last, item, inner, list, raw, lex, nfrag,
                phase, top, out, out2, out3>>

Created(h) ==
    /\ phase = "heap" /\ Len(h) <= MaxHeap
    /\ heap' = h /\ ret' = HeapOp("new", 0)
    /\ born' = born \cup {Len(h)}
    /\ UNCHANGED tick /\ UnchangedHeap

Written(h, via) ==
    /\ phase = "heap" /\ tick < MaxWrites
    /\ heap' = h /\ ret' = HeapOp("write", via)
    /\ tick' = tick + 1 /\ UNCHANGED born /\ UnchangedHeap

\* const p = new Parameters()
HeapParametersNew == Created(Append(heap, ParametersObject(Parameters_new(<<>>))))

\* const a = []
HeapArrayNew == Created(Append(heap, ArrayObject(<<>>)))

\* const i = new Item(v) or new Item(v, p)
HeapItemNew(v, p) == Created(Item_constructor(heap, v, p))

\* const l = new InnerList(), new InnerList(a) or new InnerList(a, p)
HeapInnerListNew(a, p) == Created(InnerList_constructor(heap, a, p))

\* p.set(k, v)
HeapParametersSet(p, k, v) == Written(ParametersObject_set(heap, p, k, v), p)

\* i.parameters.set(k, v)
HeapItemParametersSet(i, k, v) ==
    Written(ParametersObject_set(heap, Item_parameters(heap, i), k, v), i)

\* l.parameters.set(k, v)
HeapInnerListParametersSet(l, k, v) ==
    Written(ParametersObject_set(heap, heap[l].parameters, k, v), l)

\* i.value = v
HeapItemSetValue(i, v) == Written(ItemObject_setValue(heap, i, v), i)

\* a.push(i)
HeapArrayPush(a, i) == Written(Array_push(heap, a, i), a)

\* l.items.push(i)
HeapInnerListItemsPush(l, i) == Written(Array_push(heap, heap[l].items, i), l)

NextHeap ==
    \/ HeapParametersNew
    \/ HeapArrayNew
    \/ \E v \in BooleanItems, p \in Refs("Parameters") \cup {0} : HeapItemNew(v, p)
    \/ \E a \in Refs("Array") \cup {0}, p \in Refs("Parameters") \cup {0} :
            HeapInnerListNew(a, p)
    \/ \E p \in Refs("Parameters") : HeapParametersSet(p, S("a"), BoolTrue)
    \/ \E i \in Refs("Item") : HeapItemParametersSet(i, S("a"), BoolTrue)
    \/ \E l \in Refs("InnerList") : HeapInnerListParametersSet(l, S("a"), BoolTrue)
    \/ \E i \in Refs("Item") : HeapItemSetValue(i, BoolFalse)
    \/ \E a \in Refs("Array"), i \in Refs("Item") : HeapArrayPush(a, i)
    \/ \E l \in Refs("InnerList"), i \in Refs("Item") : HeapInnerListItemsPush(l, i)

SpecHeap == InitHeap /\ [][NextHeap]_vars

-----------------------------------------------------------------------------
(* Claims *)

\* Two bare items are the same variant holding the same value.
SameBare(a, b) == a.kind = b.kind /\ a.val = b.val

\* A bare item that a constructor accepts: a string is printable ASCII, the
\* other variants are what their constructors returned.
AcceptedBare(v) == v.kind = "str" => validateString(v.val).ok

\* C1: for every bare item v that a constructor accepts, encodeItem(new Item(v))
\* succeeds, and decodeItem of the output yields an Item whose value equals v
\* and whose parameters are empty.
C1_RoundTrip ==
    (phase \in {"encoded", "decoded"} /\ top = "item" /\ item.params = <<>>
     /\ AcceptedBare(item.val)) =>
        /\ out.ok
        /\ phase = "decoded" =>
              (out2.ok /\ SameBare(out2.val.val, item.val) /\ out2.val.params = <<>>)

\* The canonical form of a display string as the documentation states it.
C2_Escaped(b) ==
    IF b = 37 \/ b = 34 \/ b <= 31 \/ b >= 127
    THEN <<37, HexDigits[(b \div 16) + 1], HexDigits[(b % 16) + 1]>>
    ELSE <<b>>
C2_Canonical(value) ==
    <<37, 34>> \o Flatten([k \in 1..Len(TextEncode(value)) |->
                              C2_Escaped(TextEncode(value)[k])]) \o <<34>>

\* C2: encodeItem on an Item whose value is a DisplayString returns %" followed
\* by the UTF-8 bytes of the value, the bytes of %, ", bytes <= 0x1f and bytes
\* >= 0x7f written as % and two lowercase hex digits, followed by ".
C2_DisplayStringForm ==
    (phase = "encoded" /\ top = "item" /\ item.val.kind = "disp"
     /\ item.params = <<>>) =>
        (out.ok /\ out.val = C2_Canonical(item.val.val))

\* C3: encodeItem, encodeList and encodeDictionary return a string, without
\* raising an error, for every model built with the public constructors and
\* container operations.
C3_EncodeTotal == phase = "encoded" => out.ok

\* C5: for every model whose encoding succeeds, decoding the encoded text with
\* the matching operation succeeds, and encoding the decoded model gives the
\* same text again.
C5_Idempotent ==
    /\ phase = "decoded" => out2.ok
    /\ phase = "reencoded" => (out3.ok /\ out3.val = out.val)


\* C4: whenever decodeItem, decodeList or decodeDictionary rejects an input,
\* the error raised is a SyntaxError.
C4_SyntaxErrorOnly ==
    (phase = "parsed" /\ ~out.ok) => out.err.type = "SyntaxError"

\* C6: for every input a decode operation accepts, encoding the decoded model
\* succeeds, and decoding the encoded text succeeds and gives a model equal to
\* the first decoded model.
C6_Canonical ==
    /\ phase = "printed" => out2.ok
    /\ phase = "reparsed" => (out3.ok /\ out3.val = out.val)


\* The joined input, and the outcome of the grammar rule run after the leading
\* spaces.
Joined == Join(raw)
RuleOutcome == Rule(top, Joined, skipSPs(Joined, 0))
Leftover(from) == {i \in from + 1 .. Len(Joined) : Joined[i] # 32}

\* C7: a decode operation accepts an input only if, after the leading spaces,
\* one structure and the trailing spaces, the cursor is at the end of the input;
\* leftover text makes it fail with "unexpected input".
C7_WholeInput ==
    phase = "parsed" =>
        /\ out.ok => /\ RuleOutcome.ok
                     /\ Leftover(RuleOutcome.pos) = {}
                     /\ out.pos = Len(Joined)
                     /\ out.val = RuleOutcome.val
        /\ (RuleOutcome.ok /\ Leftover(RuleOutcome.pos) # {}) =>
              (~out.ok /\ out.err = [type |-> "SyntaxError", msg |-> "unexpected input"])
C7_Witness ==
    /\ phase = "parsed" /\ top = "item" /\ raw = <<S("abc=")>>
    /\ ~out.ok /\ out.err.msg = "unexpected input"

\* C8: decodeList and decodeDictionary of an empty input, or of an input of
\* spaces only, return an empty List and a Dictionary of size 0.
C8_EmptyInput ==
    (phase = "parsed" /\ top \in {"list", "dict"} /\ Len(raw) <= 1
     /\ Leftover(0) = {}) =>
        (out.ok /\ out.val = <<>> /\ Len(out.val) = 0)
C8_Witness ==
    /\ phase = "parsed" /\ top = "list" /\ raw = <<S("  ")>> /\ out.ok


\* The container part 1 exercises, as its iteration yields it, and its size.
Iterated ==
    IF top = "params" THEN Parameters_iterator(params) ELSE Dictionary_iterator(dict)
Size == IF top = "params" THEN Parameters_size(params) ELSE Dictionary_size(dict)

\* C9: after any sequence of set and delete, iteration yields exactly the keys
\* present, each once, in the order of their live insertion, each with the value
\* last set: a set on a present key replaces the value without moving the key.
C9_IterationOrder ==
    phase = "map" =>
        /\ {Iterated[i][1] : i \in DOMAIN Iterated} = {k \in MapKeys : born[k] # 0}
        /\ \A i, j \in DOMAIN Iterated :
                i < j => born[Iterated[i][1]] < born[Iterated[j][1]]
        /\ \A i \in DOMAIN Iterated : Iterated[i][2] = last[Iterated[i][1]]

\* set a, set b, set a with a new value: a is still first, with the new value.
C9_Witness ==
    /\ phase = "map" /\ ret.op = "set" /\ ret.r.ok /\ ret.was
    /\ Len(Iterated) = 2
    /\ Iterated[1][1] = ret.key
    /\ Len(ret.before) = 2
    /\ ret.before[1][2] # Iterated[1][2]

\* C10: get(k) returns the value of the latest set(k, v) not followed by
\* delete(k) and undefined otherwise; size is the number of keys present; delete
\* of an absent key raises nothing and changes neither entries, order nor size.
C10_GetSizeDelete ==
    phase = "map" =>
        /\ ret.op = "get" => ret.r = Ret(last[ret.key])
        /\ Size = Cardinality({k \in MapKeys : last[k] # Nil})
        /\ (ret.op = "delete" /\ ~ret.was) => (ret.r.ok /\ Iterated = ret.before)

\* delete of an absent key on a container that holds another key.
C10_Witness ==
    /\ phase = "map" /\ ret.op = "delete" /\ ~ret.was
    /\ Len(Iterated) = 1
    /\ ret.r.ok

\* C11: at(i) returns the i-th (key, value) pair of the iteration order for
\* every 0 <= i < size, raises RangeError "index out of range" for i < 0 or
\* i >= size, and leaves the container unchanged.
C11_At ==
    (phase = "map" /\ ret.op = "at") =>
        /\ Iterated = ret.before
        /\ IF 0 <= ret.index /\ ret.index < Size
           THEN ret.r.ok /\ ret.r.val = Iterated[ret.index + 1]
           ELSE ~ret.r.ok /\ ret.r.err =
                    [type |-> "RangeError", msg |-> "index out of range"]

\* at(1) on a container of two entries returned the second one.
C11_Witness ==
    /\ phase = "map" /\ ret.op = "at" /\ ret.index = 1
    /\ Size = 2 /\ ret.r.ok /\ ret.r.val[1] = S("b")

\* at(size) on a container of two entries raised RangeError.
C11_WitnessOut ==
    /\ phase = "map" /\ ret.op = "at" /\ ret.index = Size
    /\ Size = 2 /\ ~ret.r.ok

\* The key grammar [a-z*][a-z0-9_.*-]* .
KeyGrammar(k) ==
    /\ k # <<>>
    /\ k[1] \in Range(S("abcdefghijklmnopqrstuvwxyz*"))
    /\ \A i \in 2..Len(k) :
            k[i] \in Range(S("abcdefghijklmnopqrstuvwxyz0123456789_.*-"))

\* C12: set with a key that does not match the key grammar raises TypeError and
\* leaves the entries, their order and the size unchanged, so every key held
\* by a Parameters or a Dictionary matches the grammar.
C12_InvalidKey ==
    phase = "map" =>
        /\ (ret.op = "set" /\ ~KeyGrammar(ret.key)) =>
                /\ ~ret.r.ok /\ ret.r.err.type = "TypeError"
                /\ Iterated = ret.before
                /\ Size = Len(ret.before)
        /\ \A i \in DOMAIN Iterated : KeyGrammar(Iterated[i][1])

\* set("A", v) was refused on a container that holds an entry.
C12_Witness ==
    /\ phase = "map" /\ ret.op = "set" /\ ret.key = S("A")
    /\ ~ret.r.ok /\ Size = 1

\* C13: a Parameters or a Dictionary constructed with an ordered list of
\* [key, value] pairs contains exactly those entries in that order: size is the
\* number of pairs, iteration yields them in the given order, and the
\* Dictionary built from a, b, c encodes to "a=?0, b, c;foo=bar".
C13_Initializer ==
    (phase = "map" /\ ret.op = "init") =>
        /\ Size = Len(ret.before)
        /\ \A i \in 1..Len(ret.before) :
                i <= Size /\ Iterated[i][1] = ret.before[i][1]
        /\ (top = "dict" /\ Len(ret.before) = 3) =>
                encodeDictionary(dict) = Ret(S("a=?0, b, c;foo=bar"))

\* The texts ss joined by the separator sep.
JoinSep(sep, ss) ==
    Flatten([i \in 1..Len(ss) |-> IF i = 1 THEN ss[i] ELSE sep \o ss[i]])

\* The form of one parameter and of a Parameters whose values all encode.
ParamForm(e) ==
    IF e[2].kind = "bool" /\ e[2].val = TRUE
    THEN S(";") \o e[1]
    ELSE S(";") \o e[1] \o S("=") \o encodeBareItem(e[2]).val
ParamsForm(m) == Flatten([i \in 1..Len(m) |-> ParamForm(m[i])])

\* The form of one dictionary entry whose member encodes.
EntryForm(e) ==
    IF e[2].kind = "item" /\ e[2].val.kind = "bool" /\ e[2].val.val = TRUE
    THEN e[1] \o ParamsForm(e[2].params)
    ELSE e[1] \o S("=") \o Member_toString(e[2]).val

\* C14: Parameters encode as the concatenation, in order, of ";" key "=" value,
\* and a Dictionary as its entries joined by ", ", each key "=" member, except
\* that a parameter whose value is Boolean true is written ";key" alone and an
\* entry that is an Item with value Boolean true is written as the key followed
\* by the item's parameters; Boolean false is written "=?0".
C14_BareKey ==
    (phase = "encoded" /\ out.ok) =>
        /\ top = "item" =>
                out.val = encodeBareItem(item.val).val \o ParamsForm(item.params)
        /\ top = "dict" =>
                out.val = JoinSep(S(", "), [i \in 1..Len(dict) |-> EntryForm(dict[i])])

\* A dictionary whose entry a is a true item with a true parameter a: the
\* encoding is "a;a".
C14_Witness ==
    /\ phase = "encoded" /\ top = "dict" /\ out.ok
    /\ Len(dict) = 1 /\ dict[1][2].params # <<>>
    /\ out.val = S("a;a")

\* An item with a true and a false parameter: the encoding is "?0;a;b=?0".
C14_WitnessParameters ==
    /\ phase = "encoded" /\ top = "item" /\ out.ok
    /\ Len(item.params) = 2
    /\ out.val = S("?0;a;b=?0")

\* A dictionary of two entries, a true item and an inner list.
C14_WitnessJoined ==
    /\ phase = "encoded" /\ top = "dict" /\ out.ok
    /\ Len(dict) = 2
    /\ out.val = S("a, b=()")

\* The form of an item and of a list member, given the form of parameters.
ItemForm(it) == encodeBareItem(it.val).val \o Parameters_toString(it.params).val
MemberForm(m) ==
    IF m.kind = "item" THEN ItemForm(m)
    ELSE S("(") \o JoinSep(S(" "), [j \in 1..Len(m.items) |-> ItemForm(m.items[j])])
            \o S(")") \o Parameters_toString(m.params).val

\* C15: encodeList joins the members' encodings with ", " (the empty list gives
\* the empty text); an InnerList encodes as "(" then its items separated by one
\* space then ")" then its parameters, "()" when it has no items; an Item
\* encodes as its bare item followed by its parameters.
C15_ListForm ==
    (phase = "encoded" /\ out.ok) =>
        /\ top = "item" => out.val = ItemForm(item)
        /\ top = "list" =>
                out.val = JoinSep(S(", "), [i \in 1..Len(list) |-> MemberForm(list[i])])
        /\ (top = "list" /\ list = <<>>) => out.val = <<>>

\* A list whose only member is an inner list of two items.
C15_Witness ==
    /\ phase = "encoded" /\ top = "list" /\ out.ok
    /\ Len(list) = 1 /\ list[1].kind = "inner" /\ Len(list[1].items) = 2
    /\ out.val = S("(?1 ?1)")

\* The outcome that raises an error of this type with this message.
Raises(r, type, msg) == ~r.ok /\ r.err = [type |-> type, msg |-> msg]

\* C16: new Integer(v) fails with TypeError "value must be a number" when v is
\* NaN, otherwise with TypeError "value must be an integer" when v is not
\* integral, otherwise with RangeError when |v| > 999999999999999, and
\* otherwise succeeds with valueOf() = v and toString() its decimal rendering.
C16_Integer ==
    (phase = "number" /\ ret.op = "Integer") =>
        IF ret.arg = NaN
        THEN Raises(ret.r, "TypeError", "value must be a number")
        ELSE IF ret.arg.frac # <<>>
        THEN Raises(ret.r, "TypeError", "value must be an integer")
        ELSE IF Len(ret.arg.digs) > 15
        THEN ~ret.r.ok /\ ret.r.err.type = "RangeError"
        ELSE /\ ret.r.ok /\ ret.r.val.kind = "int" /\ ret.r.val.val = ret.arg
             /\ Integer_toString(ret.r.val.val) =
                    (IF ret.arg.neg THEN <<45>> ELSE <<>>)
                        \o [i \in 1..Len(ret.arg.digs) |-> 48 + ret.arg.digs[i]]

\* new Integer(-999999999999999) succeeded.
C16_Witness ==
    /\ phase = "number" /\ ret.op = "Integer" /\ ret.r.ok
    /\ ret.arg.neg /\ ret.arg.digs = Integer_MAX_VALUE.digs

\* new Integer(1000000000000000) raised RangeError.
C16_WitnessOut ==
    /\ phase = "number" /\ ret.op = "Integer" /\ ~ret.r.ok
    /\ ret.arg # NaN /\ ret.arg.frac = <<>> /\ Len(ret.arg.digs) = 16

\* The canonical text of a number of thousandths: an optional "-", the integer
\* part, ".", and one to three fractional digits without trailing zeros.
CanonicalDecimal(i) ==
    LET d == <<0, 0, 0>> \o i.digs
        whole == StripZeros(SubSeq(d, 1, Len(d) - 3))
        f == TrimFrac(SubSeq(d, Len(d) - 2, Len(d)))
    IN (IF i.neg /\ i.digs # <<0>> THEN <<45>> ELSE <<>>)
        \o [k \in 1..Len(whole) |-> 48 + whole[k]] \o <<46>>
        \o (IF f = <<>> THEN <<48>> ELSE [k \in 1..Len(f) |-> 48 + f[k]])

\* The string a Decimal holds.
Decimal_toString(d) == Decimal_floatToString(d.val)

\* C17: new Decimal(v) for an in-range v stores as canonical string the value v
\* rounded to the nearest multiple of 0.001, ties going to the even thousandth,
\* written with one to three fractional digits and no trailing zeros.
C17_Rounded ==
    (phase = "number" /\ ret.op = "Decimal" /\ ret.r.ok) =>
        Decimal_toString(ret.r.val) = CanonicalDecimal(NearestEven(Times1000(ret.arg)))

\* |v| > 999999999999.999, the bound being the double so written.
AboveThreeNines(v) ==
    ~AbsLeq(v, Float64(Dec(FALSE, <<9, 9, 9, 9, 9, 9, 9, 9, 9, 9, 9, 9>>, <<9, 9, 9>>)))
\* The number of characters before the "." of a decimal text, sign left out.
IntegerDigits(t) ==
    Cardinality({k \in 1..Len(t) : t[k] # 45 /\ \A j \in 1..k : t[j] # 46})

\* C18 as stated: new Decimal(v) raises RangeError whenever
\* |v| > 999999999999.999.
C18_RangeAsStated ==
    (phase = "number" /\ ret.op = "Decimal" /\ ret.arg # NaN
     /\ AboveThreeNines(ret.arg)) =>
        Raises(ret.r, "RangeError",
               "value must be between -999999999999.999 and 999999999999.999")

\* C18, amended: new Decimal(v) raises TypeError "value must be a number" when
\* v is NaN and RangeError exactly when |v| > 999999999999.9993896484375
\* (Decimal.MAX_VALUE), so no Decimal holds a canonical string with more than
\* 12 integer digits.
C18_Range ==
    (phase = "number" /\ ret.op = "Decimal") =>
        IF ret.arg = NaN
        THEN Raises(ret.r, "TypeError", "value must be a number")
        ELSE IF ~AbsLeq(ret.arg, Decimal_MAX_VALUE)
        THEN Raises(ret.r, "RangeError",
                    "value must be between -999999999999.999 and 999999999999.999")
        ELSE ret.r.ok /\ IntegerDigits(Decimal_toString(ret.r.val)) <= 12

\* new Decimal(999999999999.9993896484375) holds "999999999999.999".
C18_Witness ==
    /\ phase = "number" /\ ret.op = "Decimal" /\ ret.r.ok
    /\ ret.arg = Decimal_MAX_VALUE
    /\ Decimal_toString(ret.r.val) = S("999999999999.999")

\* The magnitude d + 1000.
AddThousand(d) ==
    LET p == <<0, 0, 0>> \o d
    IN StripZeros(Inc(SubSeq(p, 1, Len(p) - 3)) \o SubSeq(p, Len(p) - 2, Len(p)))

\* The text is the decimal rendering of the integer q with
\* 1000 * q <= t < 1000 * q + 1000.
RendersFloor(txt, t) ==
    LET neg == txt # <<>> /\ txt[1] = 45
        ds == IF neg THEN Tail(txt) ELSE txt
        m == [k \in 1..Len(ds) |-> ds[k] - 48]
    IN /\ ds # <<>>
       /\ \A k \in 1..Len(ds) : ds[k] \in 48..57
       /\ Len(ds) > 1 => ds[1] # 48
       /\ IF neg
          THEN /\ t.neg /\ m # <<0>>
               /\ MagLeq(t.digs, Mul1000(m))
               /\ ~MagLeq(AddThousand(t.digs), Mul1000(m))
          ELSE /\ ~t.neg
               /\ MagLeq(Mul1000(m), t.digs)
               /\ ~MagLeq(Mul1000(Inc(m)), t.digs)

\* C19: an Item whose value is a Date with millisecond timestamp t encodes as
\* "@" followed by the decimal rendering of floor(t / 1000), rounding toward
\* negative infinity.
C19_DateFloor ==
    (phase = "encoded" /\ top = "item" /\ item.val.kind = "date"
     /\ item.val.val # NaN /\ item.params = <<>>) =>
        /\ out.ok
        /\ out.val # <<>> /\ out.val[1] = 64
        /\ RendersFloor(Tail(out.val), item.val.val)

\* new Item(new Date(999)) encoded to "@0".
C19_Witness ==
    /\ phase = "encoded" /\ top = "item" /\ item.val.kind = "date"
    /\ item.val.val = Num(FALSE, <<9, 9, 9>>) /\ item.params = <<>>
    /\ out.ok /\ out.val = S("@0")

\* new Item(new Date(-1001)) encoded to "@-2".
C19_WitnessNegative ==
    /\ phase = "encoded" /\ top = "item" /\ item.val.kind = "date"
    /\ item.val.val = Num(TRUE, <<1, 0, 0, 1>>) /\ item.params = <<>>
    /\ out.ok /\ out.val = S("@-2")

\* The input is "@", an optional "-", and n digits and nothing else.
DateDigits(t) == IF Len(t) >= 2 /\ t[2] = 45 THEN SubSeq(t, 3, Len(t)) ELSE Tail(t)
IsDateText(t) ==
    /\ Len(t) >= 2 /\ t[1] = 64
    /\ DateDigits(t) # <<>>
    /\ \A k \in 1..Len(DateDigits(t)) : DateDigits(t)[k] \in 48..57
\* The input is "@n" for an integer n in its decimal rendering.
IsCanonicalDateText(t) ==
    /\ IsDateText(t)
    /\ Len(DateDigits(t)) > 1 => DateDigits(t)[1] # 48
    /\ t[2] = 45 => DateDigits(t) # <<48>>

\* C20: for every integer n with |n| <= 999999999999999, decodeItem("@n")
\* succeeds with a Date item denoting exactly n seconds since the epoch, and
\* encoding that item returns "@n"; a date with 16 or more digits, or followed
\* by ".", fails to decode.
C20_DateRange ==
    (phase \in {"parsed", "printed"} /\ top = "item") =>
        /\ (IsCanonicalDateText(Joined) /\ Len(DateDigits(Joined)) <= 15) =>
                /\ out.ok /\ out.val.val.kind = "date"
                /\ out.val.val.val =
                        Num(Joined[2] = 45,
                            Mul1000([k \in 1..Len(DateDigits(Joined)) |->
                                        DateDigits(Joined)[k] - 48]))
                /\ phase = "printed" => (out2.ok /\ out2.val = Joined)
        /\ (IsDateText(Joined) /\ Len(DateDigits(Joined)) >= 16) => ~out.ok
        /\ (Joined # <<>> /\ Joined[Len(Joined)] = 46
            /\ IsDateText(SubSeq(Joined, 1, Len(Joined) - 1))) => ~out.ok

\* C21: an Item never holds a string value containing a character outside
\* 0x20..0x7E, whether the value came from the constructor or from an
\* assignment to Item.value.
C21_ItemString ==
    phase = "build" => (item.val.kind = "str" => validateString(item.val.val).ok)

\* The containers, the items an inner list holds, and the objects an object is
\* made of.
Containers(h) == {r \in 1..Len(h) : h[r].cls # "Array"}
Members(h, y) == IF h[y].cls = "InnerList" THEN Range(h[h[y].items].elems) ELSE {}
Fields(h, x) ==
    IF h[x].cls = "Item" THEN {h[x].params}
    ELSE IF h[x].cls = "InnerList" THEN {h[x].items, h[x].parameters}
    ELSE IF h[x].cls = "Array" THEN Range(h[x].elems)
    ELSE {}
Parts(h, x) ==
    {x} \cup Fields(h, x) \cup UNION {Fields(h, f) \cup UNION {Fields(h, g) : g \in Fields(h, f)}
                                        : f \in Fields(h, x)}
\* y is x, a part of x, or an inner list that holds the item x.
Related(h, x, y) == y \in Parts(h, x) \/ x \in Members(h, y)

\* C22: a mutation made through one object (an Item, an InnerList, a
\* Parameters, or an array or Parameters object earlier passed to a constructor)
\* changes neither the contents nor the encoding of a different container: one
\* that is not a part of the mutated object and does not hold it.
C22_NoSharedState ==
    (phase = "heap" /\ ret.op = "write") =>
        \A y \in Containers(ret.before) :
            ~Related(ret.before, ret.via, y) =>
                /\ Contents(heap, y) = Contents(ret.before, y)
                /\ Encoding(heap, y) = Encoding(ret.before, y)

\* s1 + "," + ... + "," + sn
CommaSeparated(ss) ==
    Flatten([k \in 1..Len(ss) |-> IF k = 1 THEN ss[k] ELSE <<44>> \o ss[k]])

\* C23: decoding the raw strings s1..sn gives the same outcome, result or
\* failure, as decoding the single string s1 + "," + ... + "," + sn.
C23_JoinedInput ==
    phase = "parsed" => out = decodeTop(top, <<CommaSeparated(raw)>>)

\* decodeList("a", "bc") gives the two tokens that decodeList("a,bc") gives.
C23_Witness ==
    /\ phase = "parsed" /\ top = "list" /\ raw = <<S("a"), S("bc")>>
    /\ out.ok /\ Len(out.val) = 2
    /\ out.val[2].val = Bare("tok", S("bc"))
    /\ out = decodeTop("list", <<S("a,bc")>>)

\* The parts of a text read as a number: the sign, the run of digits after it,
\* and what follows the run.
IsDigitCode(c) == c \in 48..57
Unsigned(t) == IF t # <<>> /\ t[1] = 45 THEN Tail(t) ELSE t
DigitRun(t) ==
    CHOOSE k \in 0..Len(t) :
        /\ \A i \in 1..k : IsDigitCode(t[i])
        /\ k < Len(t) => ~IsDigitCode(t[k + 1])
IntegerPart(t) == SubSeq(Unsigned(t), 1, DigitRun(Unsigned(t)))
AfterInteger(t) == SubSeq(Unsigned(t), DigitRun(Unsigned(t)) + 1, Len(Unsigned(t)))
\* The text is "." and digits only after the integer part: those digits.
IsDecimalText(t) ==
    /\ IntegerPart(t) # <<>>
    /\ AfterInteger(t) # <<>> /\ AfterInteger(t)[1] = 46
    /\ \A i \in 2..Len(AfterInteger(t)) : IsDigitCode(AfterInteger(t)[i])
FractionPart(t) == Tail(AfterInteger(t))
IsIntegerText(t) == IntegerPart(t) # <<>> /\ AfterInteger(t) = <<>>
DigitsOf(cs) == [i \in 1..Len(cs) |-> cs[i] - 48]
\* The number of thousandths that integer digits i and fraction digits f denote.
Thousandths(i, f) ==
    StripZeros(DigitsOf(i) \o DigitsOf(f) \o [k \in 1..(3 - Len(f)) |-> 0])
TooLong == [type |-> "SyntaxError", msg |-> "number is too long"]

\* C24: an optional "-" must be followed by a digit; 1 to 15 digits with no "."
\* give an Integer of that value and sign; at most 12 digits, "." and 1 to 3
\* digits give a Decimal of that value and sign; a 16th integer digit, more than
\* 12 integer digits before ".", an empty fraction and a 4th fractional digit
\* each make the decode fail.
C24_Number ==
    (phase = "parsed" /\ top = "item") =>
        /\ (Joined # <<>> /\ Joined[1] = 45
            /\ (Len(Joined) = 1 \/ ~IsDigitCode(Joined[2]))) => ~out.ok
        /\ (IsIntegerText(Joined) /\ Len(IntegerPart(Joined)) <= 15) =>
                /\ out.ok
                /\ out.val = NewItem(Bare("int", Num(Joined[1] = 45,
                                 StripZeros(DigitsOf(IntegerPart(Joined))))), <<>>)
        /\ (IsDecimalText(Joined) /\ Len(IntegerPart(Joined)) <= 12
            /\ Len(FractionPart(Joined)) \in 1..3) =>
                /\ out.ok
                /\ out.val = NewItem(Bare("dec", Num(Joined[1] = 45,
                                 Thousandths(IntegerPart(Joined), FractionPart(Joined)))),
                                     <<>>)
        /\ Len(IntegerPart(Joined)) >= 16 => (~out.ok /\ out.err = TooLong)
        /\ (IsDecimalText(Joined) /\ Len(IntegerPart(Joined)) > 12) =>
                (~out.ok /\ out.err = TooLong)
        /\ (IsDecimalText(Joined) /\ FractionPart(Joined) = <<>>) => ~out.ok
        /\ (IsDecimalText(Joined) /\ Len(IntegerPart(Joined)) <= 12
            /\ Len(FractionPart(Joined)) >= 4) => (~out.ok /\ out.err = TooLong)

\* decodeItem("1.025") is the Decimal of 1025 thousandths.
C24_Witness ==
    /\ phase = "parsed" /\ top = "item" /\ Joined = S("1.025")
    /\ out.ok /\ out.val.val = Bare("dec", Num(FALSE, <<1, 0, 2, 5>>))

\* decodeItem("9999999999999999"), of 16 digits, fails.
C24_WitnessLong ==
    /\ phase = "parsed" /\ top = "item" /\ Len(IntegerPart(Joined)) = 16
    /\ ~out.ok /\ out.err = TooLong

\* The last character of a text that is neither a space nor a tab (0 if none),
\* and the number of its commas.
Solid(t) == {i \in 1..Len(t) : t[i] \notin {32, 9}}
LastSolid(t) ==
    IF Solid(t) = {} THEN 0 ELSE t[CHOOSE i \in Solid(t) : \A j \in Solid(t) : j <= i]
Commas(t) == Cardinality({i \in 1..Len(t) : t[i] = 44})
\* The first member of the list or dictionary being decoded, and the cursor
\* after the spaces and tabs that follow it.
FirstMember ==
    IF top = "list" THEN decodeItemOrInnerList(Joined, skipSPs(Joined, 0))
    ELSE Bind(decodeKey(Joined, skipSPs(Joined, 0)), LAMBDA k :
         IF ~k.ok THEN k
         ELSE IF ~validateKey(k.val).ok THEN At(k.pos, validateKey(k.val))
         ELSE IF peek(Joined, k.pos) = C.EQ
         THEN decodeItemOrInnerList(Joined, k.pos + 1)
         ELSE BareMember(Joined, k.pos))
AfterFirstMember == skipOWS(Joined, FirstMember.pos)

\* C25: in decodeList and decodeDictionary, after a member and optional spaces
\* and tabs, end of input ends the structure, a character other than "," fails,
\* and a comma followed by optional spaces and tabs and end of input fails; no
\* accepted input ends with a comma, and an accepted input without quoted text
\* has one comma fewer than it has members (keys repeated in a dictionary
\* counted each time).
C25_Separator ==
    (phase = "parsed" /\ top \in {"list", "dict"}) =>
        /\ out.ok => LastSolid(Joined) # 44
        /\ (out.ok /\ top = "list" /\ 34 \notin Range(Joined)) =>
                Len(out.val) = IF Solid(Joined) = {} THEN 0 ELSE Commas(Joined) + 1
        /\ (out.ok /\ top = "dict" /\ 34 \notin Range(Joined)) =>
                Len(out.val) <= IF Solid(Joined) = {} THEN 0 ELSE Commas(Joined) + 1
        /\ (Solid(Joined) # {} /\ FirstMember.ok) =>
                /\ peek(Joined, AfterFirstMember) = END_OF_INPUT =>
                        (out.ok /\ Len(out.val) = 1)
                /\ peek(Joined, AfterFirstMember) \notin {END_OF_INPUT, C.COMMA} =>
                        ~out.ok
                /\ (peek(Joined, AfterFirstMember) = C.COMMA
                    /\ peek(Joined, skipOWS(Joined, AfterFirstMember + 1)) = END_OF_INPUT)
                        => (~out.ok /\ out.err.msg = "unexpected end of input")

\* decodeList("a", " ") fails: the joined input "a, " ends with a comma and a
\* space.
C25_Witness ==
    /\ phase = "parsed" /\ top = "list" /\ lex = "separator"
    /\ raw = <<S("a"), S(" ")>> /\ ~out.ok
    /\ out.err.msg = "unexpected end of input"

\* decodeDictionary of "a" tab "," "b" gives two members.
C25_WitnessTab ==
    /\ phase = "parsed" /\ top = "dict" /\ Joined = S("a") \o <<9>> \o S(",b")
    /\ out.ok /\ Len(out.val) = 2

\* decodeList("a b") fails: two members without a comma.
C25_WitnessNoComma ==
    /\ phase = "parsed" /\ top = "list" /\ Joined = S("a b")
    /\ ~out.ok /\ out.err.msg = "unexpected character"

\* The positions of a text that lie inside parentheses, and whether its
\* parentheses alternate "(" ")" "(" ")".
Opened(t, i) == Cardinality({j \in 1..i : t[j] = 40})
Closed(t, i) == Cardinality({j \in 1..i : t[j] = 41})
Alternating(t) ==
    /\ \A i \in 1..Len(t) : Opened(t, i) - Closed(t, i) \in {0, 1}
    /\ Opened(t, Len(t)) = Closed(t, Len(t))
Inside(t, i) == Opened(t, i) > Closed(t, i)
\* The runs of characters between the spaces of a text.
RECURSIVE SplitSpaces(_)
SplitSpaces(t) ==
    IF t = <<>> THEN <<>>
    ELSE IF t[1] = 32 THEN SplitSpaces(Tail(t))
    ELSE Bind(CHOOSE n \in 1..Len(t) :
                /\ \A i \in 1..n : t[i] # 32
                /\ n < Len(t) => t[n + 1] = 32, LAMBDA n :
         <<SubSeq(t, 1, n)>> \o SplitSpaces(SubSeq(t, n + 1, Len(t))))
\* The input is "(" body ")" tail with no other parenthesis, no quoted text, no
\* comma and no space after ";": body, the items written in it, and the cursor
\* after ")".
CloseAt(t) == CHOOSE i \in 1..Len(t) : t[i] = 41
IsOneInnerList(t) ==
    /\ Len(t) >= 2 /\ t[1] = 40
    /\ Opened(t, Len(t)) = 1 /\ Closed(t, Len(t)) = 1
    /\ Range(t) \cap {34, 44} = {}
    /\ \A i \in 1..Len(t) - 1 : t[i] = 59 => t[i + 1] # 32
InnerBody(t) == SubSeq(t, 2, CloseAt(t) - 1)
WrittenItems(t) ==
    [k \in 1..Len(SplitSpaces(InnerBody(t))) |->
        decodeItem(<<SplitSpaces(InnerBody(t))[k]>>)]
AfterClose(t) == decodeParameters(t, CloseAt(t))
InnerListAccepted(t) ==
    /\ \A k \in 1..Len(WrittenItems(t)) : WrittenItems(t)[k].ok
    /\ AfterClose(t).ok /\ skipOWS(t, AfterClose(t).pos) = Len(t)

\* C26: an inner list is "(", zero or more items each followed by a space or
\* ")", with spaces but no tabs allowed before each item and before ")"; items
\* not separated by a space, an unterminated list and a "(" inside an inner list
\* fail; parameters after ")" belong to the inner list and parameters after an
\* item belong to that item.
C26_InnerList ==
    (phase = "parsed" /\ top = "list" /\ 34 \notin Range(Joined)) =>
        /\ out.ok => /\ Alternating(Joined)
                     /\ \A i \in 1..Len(Joined) : Inside(Joined, i) => Joined[i] # 9
        /\ IsOneInnerList(Joined) =>
                /\ out.ok <=> InnerListAccepted(Joined)
                /\ out.ok =>
                        out.val = << NewInnerList(
                                        [k \in 1..Len(WrittenItems(Joined)) |->
                                            WrittenItems(Joined)[k].val],
                                        AfterClose(Joined).val) >>

\* decodeList("(1 a;b)"): the parameter b belongs to the item a.
C26_Witness ==
    /\ phase = "parsed" /\ top = "list" /\ Joined = S("(1 a;b)")
    /\ out.ok /\ Len(out.val) = 1 /\ out.val[1].kind = "inner"
    /\ Len(out.val[1].items) = 2
    /\ out.val[1].items[2].params = << <<S("b"), BoolTrue>> >>
    /\ out.val[1].params = <<>>

\* decodeList("(1 a);b"): the parameter b belongs to the inner list.
C26_WitnessListParameter ==
    /\ phase = "parsed" /\ top = "list" /\ Joined = S("(1 a);b")
    /\ out.ok /\ out.val[1].params = << <<S("b"), BoolTrue>> >>
    /\ out.val[1].items[2].params = <<>>

\* decodeList("(1a)") fails: two items without a space between them.
C26_WitnessNoSpace ==
    /\ phase = "parsed" /\ top = "list" /\ Joined = S("(1a)") /\ ~out.ok

\* decodeList of "(" tab ")" fails.
C26_WitnessTab ==
    /\ phase = "parsed" /\ top = "list" /\ Joined = <<40, 9, 41>> /\ ~out.ok

\* The segments of a text between the occurrences of the character c.
RECURSIVE SplitOn(_, _)
SplitOn(t, c) ==
    IF c \notin Range(t) THEN <<t>>
    ELSE Bind(CHOOSE n \in 1..Len(t) : t[n] = c /\ \A i \in 1..n - 1 : t[i] # c,
              LAMBDA n : <<SubSeq(t, 1, n - 1)>> \o SplitOn(SubSeq(t, n + 1, Len(t)), c))
\* The key a segment starts with, and what follows the key.
KeyRun(t) ==
    CHOOSE n \in 0..Len(t) :
        /\ \A i \in 1..n : t[i] \in DecodeKeyChar
        /\ n < Len(t) => t[n + 1] \notin DecodeKeyChar
WrittenKey(t) == SubSeq(t, 1, KeyRun(t))
AfterKey(t) == SubSeq(t, KeyRun(t) + 1, Len(t))
\* The member a segment of a dictionary denotes: key "=" value, or a key and
\* parameters, which stand for the value ?1 with those parameters.
WrittenMember(t) ==
    << WrittenKey(t),
       IF AfterKey(t) # <<>> /\ AfterKey(t)[1] = 61
       THEN decodeList(<<Tail(AfterKey(t))>>).val[1]
       ELSE decodeItem(<<S("?1") \o AfterKey(t)>>).val >>
\* The parameter a segment of a parameter list denotes.
WrittenParameter(t) ==
    << WrittenKey(t),
       IF AfterKey(t) # <<>> /\ AfterKey(t)[1] = 61
       THEN decodeItem(<<Tail(AfterKey(t))>>).val.val
       ELSE BoolTrue >>
\* One entry per key, at the position of the key's first occurrence, with the
\* value of its last occurrence.
FirstOccurrences(es) == {i \in 1..Len(es) : \A j \in 1..i - 1 : es[j][1] # es[i][1]}
LastValue(es, k) ==
    es[CHOOSE i \in 1..Len(es) :
            es[i][1] = k /\ \A j \in i + 1..Len(es) : es[j][1] # k][2]
RECURSIVE Ascending(_)
Ascending(set) ==
    IF set = {} THEN <<>>
    ELSE Bind(CHOOSE i \in set : \A j \in set : i <= j,
              LAMBDA i : <<i>> \o Ascending(set \ {i}))
Merged(es) ==
    [n \in 1..Cardinality(FirstOccurrences(es)) |->
        << es[Ascending(FirstOccurrences(es))[n]][1],
           LastValue(es, es[Ascending(FirstOccurrences(es))[n]][1]) >>]
WrittenMembers(t) == [k \in 1..Len(SplitOn(t, 44)) |-> WrittenMember(SplitOn(t, 44)[k])]
WrittenParameters(t) ==
    [k \in 1..Len(SplitOn(t, 59)) - 1 |-> WrittenParameter(SplitOn(t, 59)[k + 1])]

\* C27: in an accepted dictionary, a key followed by "=" maps to the decoded
\* item or inner list and a key not followed by "=" maps to an item of value
\* true with the parameters that follow the key; a key written more than once,
\* in a dictionary or in a parameter list, has one entry, at the position of its
\* first occurrence, with the value of its last occurrence.
C27_Dictionary ==
    (phase = "parsed" /\ out.ok /\ Range(Joined) \cap {32, 9, 34} = {}) =>
        /\ (top = "dict" /\ Joined # <<>>) => out.val = Merged(WrittenMembers(Joined))
        /\ top = "item" => out.val.params = Merged(WrittenParameters(Joined))

\* decodeDictionary("a=1,b,a"): a keeps its first position and holds true.
C27_Witness ==
    /\ phase = "parsed" /\ top = "dict" /\ Joined = S("a=1,b,a")
    /\ out.ok
    /\ out.val = << <<S("a"), NewItem(BoolTrue, <<>>)>>,
                    <<S("b"), NewItem(BoolTrue, <<>>)>> >>

\* decodeItem("a;a=1;b;a"): the parameter a is first and holds true.
C27_WitnessParameters ==
    /\ phase = "parsed" /\ top = "item" /\ Joined = S("a;a=1;b;a")
    /\ out.ok
    /\ out.val.params = << <<S("a"), BoolTrue>>, <<S("b"), BoolTrue>> >>

\* decodeDictionary("a;a=1;b"): a bare key with parameters.
C27_WitnessBareKey ==
    /\ phase = "parsed" /\ top = "dict" /\ Joined = S("a;a=1;b")
    /\ out.ok /\ Len(out.val) = 1 /\ out.val[1][2].val = BoolTrue
    /\ Len(out.val[1][2].params) = 2

\* The body of a display string read from character i of t as the claim
\* describes it: printable ASCII other than " and %, and % with exactly two
\* lowercase hexadecimal digits; it ends at the first ".  The outcome is the
\* bytes collected and the index of the closing quote.
IsLowerHex(c) == c \in 48..57 \/ c \in 97..102
HexDigitValue(c) == IF c \in 48..57 THEN c - 48 ELSE c - 87
RECURSIVE ReadBody(_, _, _)
ReadBody(t, i, bytes) ==
    IF i > Len(t) THEN [ok |-> FALSE, bytes |-> bytes, close |-> i]
    ELSE IF t[i] = 34 THEN [ok |-> TRUE, bytes |-> bytes, close |-> i]
    ELSE IF t[i] = 37
    THEN (IF i + 2 <= Len(t) /\ IsLowerHex(t[i + 1]) /\ IsLowerHex(t[i + 2])
          THEN ReadBody(t, i + 3,
                        Append(bytes, 16 * HexDigitValue(t[i + 1]) + HexDigitValue(t[i + 2])))
          ELSE [ok |-> FALSE, bytes |-> bytes, close |-> i])
    ELSE IF t[i] \in 32..126 THEN ReadBody(t, i + 1, Append(bytes, t[i]))
    ELSE [ok |-> FALSE, bytes |-> bytes, close |-> i]
StartsDisplayString(t) == Len(t) >= 2 /\ t[1] = 37 /\ t[2] = 34
WrittenBody(t) == ReadBody(t, 3, <<>>)

\* C28: decodeItem accepts %" body " exactly when the body is made of printable
\* ASCII characters other than " and % and of escapes of % and two lowercase
\* hexadecimal digits, and the bytes collected are valid UTF-8; the value is
\* then the UTF-8 decoding of those bytes.
C28_DisplayString ==
    (phase = "parsed" /\ top = "item" /\ StartsDisplayString(Joined)) =>
        /\ ~WrittenBody(Joined).ok => ~out.ok
        /\ (WrittenBody(Joined).ok /\ WrittenBody(Joined).close = Len(Joined)) =>
                /\ out.ok <=> Utf8Decode(WrittenBody(Joined).bytes).ok
                /\ out.ok =>
                        out.val = NewItem(Bare("disp",
                                      Utf8Decode(WrittenBody(Joined).bytes).val), <<>>)

\* C29: during a decode the cursor never exceeds the length of the joined
\* input: the decoder never advances once peek reports end of input.
C29_Cursor == phase = "parsed" => out.pos <= Len(Joined)

\* A rule that was started at cursor p: it did not move the cursor back, and if
\* it succeeded it advanced the cursor.
Advanced(p, r) == r.pos >= p /\ (r.ok => r.pos > p)
\* The call returned a model or raised an error.
Terminated(r) == IF r.ok THEN r.err = NoErr ELSE r.err.type # "" /\ r.val = Nil

\* C30: every decode call returns a model or raises an error, and every
\* iteration of a decoder loop that does not leave the loop advances the cursor:
\* started at any cursor position of the input, an item, a bare item, a key, an
\* inner list, a parameter and a separator that is followed by another member
\* each end at a larger cursor position.
C30_Terminates ==
    phase = "parsed" =>
        /\ Terminated(out)
        /\ \A p \in 0..Len(Joined) :
            /\ Advanced(p, decodeBareItem(Joined, p))
            /\ Advanced(p, DecodeState_decodeItem(Joined, p))
            /\ Advanced(p, decodeKey(Joined, p))
            /\ Advanced(p, decodeItemOrInnerList(Joined, p))
            /\ peek(Joined, p) = C.SEMI => Advanced(p, decodeParameters(Joined, p))
            /\ Separator(Joined, p).ok =>
                   (Separator(Joined, p).val => Separator(Joined, p).pos > p)
            /\ skipSPs(Joined, p) >= p /\ skipOWS(Joined, p) >= p

\* decodeList("a", "(1 a"): the list loop runs twice and the inner list is
\* never closed.
C30_Witness ==
    /\ phase = "parsed" /\ top = "list" /\ raw = <<S("a"), S("(1 a")>>
    /\ ~out.ok /\ Terminated(out)

\* decodeDictionary("a=1,b", "a=1,b", "a=1,b") returns after six members.
C30_WitnessReturn ==
    /\ phase = "parsed" /\ top = "dict" /\ Joined = S("a=1,b,a=1,b")
    /\ out.ok /\ Terminated(out) /\ Len(out.val) = 2

====
